---- MODULE Spec2Model ----
(***************************************************************************)
(* Model of the Policy Navigator: the rule-based compliance analyzer       *)
(* (tools/custom_analysis_tool.py, class PolicyAnalysisTool) with its      *)
(* compliance analysis, policy comparison and stakeholder extraction; the  *)
(* agent's collaborators (tools/federal_register_api.py,                   *)
(* tools/courtlistener_api.py, src/vector_store.py); and the agent itself  *)
(* (src/policy_navigator_agent.py, class PolicyNavigatorAgent).  Each has  *)
(* a specification of its own.                                             *)
(*                                                                         *)
(* Text is modelled by TLA+ strings, handled character by character with   *)
(* Len, SubSeq and \o, so that substring tests, lower-casing, trimming,    *)
(* splitting and the regular expressions are computed as Python computes   *)
(* them.  The report is modelled as the sequence of lines the formatter    *)
(* appends to its output, one record per "output +=" statement.            *)
(***************************************************************************)
EXTENDS Integers, Sequences, FiniteSets, TLC

VARIABLES document_text, document_title, pc, sentences, analysis, output,
          text_type, previous

\* The invocations in progress of callers that share one analyzer.
VARIABLES calls

\* The arguments, the locals and the report of compare_policies.
VARIABLES policy1_text, policy1_title, policy2_text, policy2_title,
          analysis1, analysis2, common_reqs, unique_to_1, unique_to_2,
          comparison

\* The dictionary and the report of extract_stakeholders.
VARIABLES stakeholders, stakeholder_report

\* A call of one of the agent's collaborators (FederalRegisterTool,
\* CourtListenerTool, VectorSearchTool): the method called, its argument, what
\* its requests met with, the dictionary the vector store handed to the
\* search tool and the text returned.
VARIABLES tool_called, tool_argument, tool_outcome, tool_results,
          tool_returned

\* PolicyNavigatorAgent: self.agent, self.conversation_history, and of the
\* last call of query its argument, how its processing ended, the
\* collaborators it called with what they returned, and what it returned.
VARIABLES agent, conversation_history, user_query, query_type, processing,
          invoked, response

compareVars == <<policy1_text, policy1_title, policy2_text, policy2_title,
                 analysis1, analysis2, common_reqs, unique_to_1, unique_to_2,
                 comparison>>

stakeholderVars == <<stakeholders, stakeholder_report>>

toolVars == <<tool_called, tool_argument, tool_outcome, tool_results,
              tool_returned>>

agentVars == <<agent, conversation_history, user_query, query_type, processing,
               invoked, response>>


vars == <<document_text, document_title, pc, sentences, analysis, output,
          text_type, previous, calls, compareVars, stakeholderVars,
          toolVars, agentVars>>

-----------------------------------------------------------------------------
(* Bounds of the model.                                                    *)

\* A document is a fragment repeated up to MaxRepeat times followed by a tail
\* fragment repeated up to MaxTail times.
MaxRepeat == 6
MaxTail == 1
\* datetime.now() is read as one of the clock values 1..MaxClock.
MaxClock == 2

-----------------------------------------------------------------------------
(* Characters and strings.                                                 *)

Char(s, i) == SubSeq(s, i, i)

Min(S) == CHOOSE x \in S : \A y \in S : x <= y

Max(S) == CHOOSE x \in S : \A y \in S : x >= y

\* The characters str.isspace() accepts, of the model's alphabet.
SpaceChars == {" ", "\t", "\n", "\r"}

\* \d of the re module.
DigitChars == {"0", "1", "2", "3", "4", "5", "6", "7", "8", "9"}

UpperLetters == "ABCDEFGHIJKLMNOPQRSTUVWXYZ"

LowerLetters == "abcdefghijklmnopqrstuvwxyz"

\* The lower-case letter of every upper-case letter.
LowerOf == [c \in {Char(UpperLetters, i) : i \in 1..26} |->
               Char(LowerLetters, CHOOSE i \in 1..26 : Char(UpperLetters, i) = c)]

\* \w of the re module.
WordChars == DOMAIN LowerOf \cup {Char(LowerLetters, i) : i \in 1..26}
             \cup DigitChars \cup {"_"}

\* The terminal characters of the pattern [.!?]+
TerminalChars == {".", "!", "?"}

IsSpace(c) == c \in SpaceChars

IsDigit(c) == c \in DigitChars

LowerChar(c) == IF c \in DOMAIN LowerOf THEN LowerOf[c] ELSE c

\* str.lower(): every character lower-cased, computed by halves.
RECURSIVE lower(_)
lower(s) ==
    IF Len(s) = 0 THEN ""
    ELSE IF Len(s) = 1 THEN LowerChar(s)
    ELSE LET h == Len(s) \div 2
         IN  lower(SubSeq(s, 1, h)) \o lower(SubSeq(s, h + 1, Len(s)))

\* str.strip(): leading and trailing whitespace removed.
strip(s) ==
    LET keep == {i \in 1..Len(s) : ~IsSpace(Char(s, i))}
    IN  IF keep = {} THEN "" ELSE SubSeq(s, Min(keep), Max(keep))

\* Contains matching k as a whole word of s and not as a substring.
ContainsAsWord(s, k) ==
    \E i \in 1..(Len(s) + 1 - Len(k)) :
        /\ SubSeq(s, i, i + Len(k) - 1) = k
        /\ (i = 1 \/ Char(s, i - 1) \notin WordChars)
        /\ (i + Len(k) > Len(s) \/ Char(s, i + Len(k)) \notin WordChars)

\* Python's "k in s" on strings.
Contains(s, k) ==
    \E i \in 1..(Len(s) + 1 - Len(k)) : SubSeq(s, i, i + Len(k) - 1) = k

\* s[:n]
Prefix(s, n) == SubSeq(s, 1, IF Len(s) < n THEN Len(s) ELSE n)

\* any(keyword in s for keyword in keywords)
ContainsAny(s, keywords) ==
    \E j \in 1..Len(keywords) : Contains(s, keywords[j])

\* A greedy run of the characters of a class from position i of s on: the
\* position after the run (i itself when the run is empty).
\* The text is scanned 16 characters at a time.
RECURSIVE RunEnd(_, _, _)
RunEnd(s, i, class) ==
    IF i > Len(s) \/ Char(s, i) \notin class THEN i
    ELSE LET last == IF i + 15 < Len(s) THEN i + 15 ELSE Len(s)
             out  == {j \in i..last : Char(s, j) \notin class}
         IN  IF out # {} THEN Min(out) ELSE RunEnd(s, last + 1, class)

\* The position of the first character of a class from position i of s on,
\* Len(s) + 1 when there is none.
RECURSIVE FirstOf(_, _, _)
FirstOf(s, i, class) ==
    IF i > Len(s) \/ Char(s, i) \in class THEN i
    ELSE LET last == IF i + 15 < Len(s) THEN i + 15 ELSE Len(s)
             hit  == {j \in i..last : Char(s, j) \in class}
         IN  IF hit # {} THEN Min(hit) ELSE FirstOf(s, last + 1, class)

\* Whether the literal k occurs in s at position i.
At(s, i, k) == i + Len(k) - 1 <= Len(s) /\ SubSeq(s, i, i + Len(k) - 1) = k

-----------------------------------------------------------------------------
(* PolicyAnalysisTool.__init__: the keyword tables.                        *)

compliance_keywords ==
    [mandatory  |-> <<"must", "shall", "required", "mandatory", "obligated",
                      "compelled">>,
     optional   |-> <<"may", "can", "could", "optional", "permitted",
                      "allowed">>,
     prohibited |-> <<"shall not", "must not", "cannot", "prohibited",
                      "forbidden", "banned">>,
     timeframes |-> <<"within", "by", "before", "after", "days", "months",
                      "years", "immediately">>,
     penalties  |-> <<"penalty", "fine", "violation", "sanctions",
                      "enforcement", "liability">>]

\* PolicyAnalysisTool.__init__: the deadline pattern
\* within\s+(\d+)\s+(days?|months?|years?) tried at position i of s.  Each
\* greedy run is followed by a character outside its class, so the match at
\* a position is unique.  The result holds group(1) and group(2).
DeadlineUnits == <<"day", "month", "year">>

DeadlineAt(s, i) ==
    LET a == i + 6
        b == RunEnd(s, a, SpaceChars)
        c == RunEnd(s, b, DigitChars)
        d == RunEnd(s, c, SpaceChars)
        units == {u \in 1..Len(DeadlineUnits) : At(s, d, DeadlineUnits[u])}
        unit == DeadlineUnits[Min(units)]
        e == d + Len(unit)
    IN  IF At(s, i, "within") /\ b > a /\ c > b /\ d > c /\ units # {}
        THEN [ok |-> TRUE, group1 |-> SubSeq(s, b, c - 1),
              group2 |-> IF At(s, e, "s") THEN unit \o "s" ELSE unit]
        ELSE [ok |-> FALSE, group1 |-> "", group2 |-> ""]

\* deadline_search taking the rightmost match.
deadline_search_rightmost(s) ==
    LET starts == {i \in 1..Len(s) : DeadlineAt(s, i).ok}
    IN  IF starts = {} THEN [ok |-> FALSE, group1 |-> "", group2 |-> ""]
        ELSE DeadlineAt(s, Max(starts))

\* re.search(self.compliance_patterns["deadline"], s): the leftmost match.
deadline_search(s) ==
    LET starts == {i \in 1..Len(s) : DeadlineAt(s, i).ok}
    IN  IF starts = {} THEN [ok |-> FALSE, group1 |-> "", group2 |-> ""]
        ELSE DeadlineAt(s, Min(starts))

\* The percentage pattern (\d+(?:\.\d+)?)\s*% tried at position i of s.
PercentageAt(s, i) ==
    LET c == RunEnd(s, i, DigitChars)
        e == RunEnd(s, c + 1, DigitChars)
        frac == At(s, c, ".") /\ e > c + 1
        g == IF frac THEN e ELSE c
        f == RunEnd(s, g, SpaceChars)
    IN  IF c > i /\ At(s, f, "%")
        THEN [ok |-> TRUE, start |-> i, end |-> f + 1,
              value |-> SubSeq(s, i, g - 1)]
        ELSE [ok |-> FALSE, start |-> i, end |-> i, value |-> ""]

\* The thousands groups (?:,\d{3})* from position i on, greedily.
RECURSIVE ThousandsEnd(_, _)
ThousandsEnd(s, i) ==
    IF At(s, i, ",") /\ i + 3 <= Len(s)
       /\ \A j \in (i + 1)..(i + 3) : IsDigit(Char(s, j))
    THEN ThousandsEnd(s, i + 4)
    ELSE i

\* The dollar pattern \$\s*(\d+(?:,\d{3})*(?:\.\d{2})?) tried at position i.
DollarAt(s, i) ==
    LET b == RunEnd(s, i + 1, SpaceChars)
        c == RunEnd(s, b, DigitChars)
        d == ThousandsEnd(s, c)
        cents == At(s, d, ".") /\ d + 2 <= Len(s)
                 /\ IsDigit(Char(s, d + 1)) /\ IsDigit(Char(s, d + 2))
        e == IF cents THEN d + 3 ELSE d
    IN  IF At(s, i, "$") /\ c > b
        THEN [ok |-> TRUE, start |-> i, end |-> e, value |-> SubSeq(s, b, e - 1)]
        ELSE [ok |-> FALSE, start |-> i, end |-> i, value |-> ""]

\* The date part (\w+\s+\d{1,2},?\s+\d{4}) tried at position i: the position
\* after it, or 0 when it does not match there.
DatePartEnd(s, i) ==
    LET b == RunEnd(s, i, WordChars)
        c == RunEnd(s, b, SpaceChars)
        d == RunEnd(s, c, DigitChars)
        e == IF At(s, d, ",") THEN d + 1 ELSE d
        f == RunEnd(s, e, SpaceChars)
    IN  IF b > i /\ c > b /\ d > c /\ d <= c + 2 /\ f > e
           /\ f + 3 <= Len(s) /\ \A j \in f..(f + 3) : IsDigit(Char(s, j))
        THEN f + 4
        ELSE 0

\* The effective-date pattern effective\s+(on\s+)?(\w+\s+\d{1,2},?\s+\d{4})
\* with re.IGNORECASE tried at position i; the value is group 2.  The
\* optional group is tried first and given up when the rest fails.
EffectiveDateAt(s, i) ==
    LET head == i + 8 <= Len(s) /\ lower(SubSeq(s, i, i + 8)) = "effective"
        b == RunEnd(s, i + 9, SpaceChars)
        on == RunEnd(s, b + 2, SpaceChars)
        withOn == IF b + 1 <= Len(s) /\ lower(SubSeq(s, b, b + 1)) = "on"
                     /\ on > b + 2
                  THEN DatePartEnd(s, on) ELSE 0
        without == DatePartEnd(s, b)
    IN  IF head /\ b > i + 9 /\ withOn > 0
        THEN [ok |-> TRUE, start |-> i, end |-> withOn,
              value |-> SubSeq(s, on, withOn - 1)]
        ELSE IF head /\ b > i + 9 /\ without > 0
        THEN [ok |-> TRUE, start |-> i, end |-> without,
              value |-> SubSeq(s, b, without - 1)]
        ELSE [ok |-> FALSE, start |-> i, end |-> i, value |-> ""]

\* re.findall: the matches taken left to right, each search resuming where
\* the previous match ended.  matches holds the match tried at every
\* position that succeeds.
RECURSIVE NonOverlapping(_, _)
NonOverlapping(matches, pos) ==
    LET rest == {m \in matches : m.start >= pos}
    IN  IF rest = {} THEN <<>>
        ELSE LET first == CHOOSE m \in rest : \A n \in rest : m.start <= n.start
             IN  <<first.value>> \o NonOverlapping(matches, first.end)

findall_percentage(text) ==
    NonOverlapping({PercentageAt(text, i) : i \in {j \in 1..Len(text) :
                        IsDigit(Char(text, j)) /\ PercentageAt(text, j).ok}}, 1)

findall_dollar_amount(text) ==
    NonOverlapping({DollarAt(text, i) : i \in {j \in 1..Len(text) :
                        Char(text, j) = "$" /\ DollarAt(text, j).ok}}, 1)

\* findall_effective_date returning the whole match instead of group 2.
findall_effective_date_whole_match(text) ==
    NonOverlapping({[m EXCEPT !.value = SubSeq(text, m.start, m.end - 1)] :
                       m \in {EffectiveDateAt(text, i) : i \in {j \in 1..Len(text) :
                                 Char(text, j) \in {"e", "E"}
                                 /\ EffectiveDateAt(text, j).ok}}}, 1)

findall_effective_date(text) ==
    NonOverlapping({EffectiveDateAt(text, i) : i \in {j \in 1..Len(text) :
                        Char(text, j) \in {"e", "E"}
                        /\ EffectiveDateAt(text, j).ok}}, 1)

-----------------------------------------------------------------------------
(* PolicyAnalysisTool._split_into_sentences                                *)

\* re.split(r'[.!?]+', text) from position i on: the spans between the runs
\* of terminal characters, the empty spans at both ends included.
RECURSIVE re_split(_, _)
re_split(text, i) ==
    LET j == FirstOf(text, i, TerminalChars)
        span == SubSeq(text, i, j - 1)
    IN  IF j > Len(text) THEN <<span>>
        ELSE <<span>> \o re_split(text, RunEnd(text, j, TerminalChars))

NonBlank(s) == strip(s) # ""

\* split_into_sentences keeping the spans untrimmed.
split_into_sentences_untrimmed(text) ==
    SelectSeq(re_split(text, 1), NonBlank)

split_into_sentences(text) ==
    LET spans == SelectSeq(re_split(text, 1), NonBlank)
    IN  [k \in 1..Len(spans) |-> strip(spans[k])]

-----------------------------------------------------------------------------
(* PolicyAnalysisTool.analyze_compliance_requirements                      *)

\* The analysis dictionary as first built, with empty sequences.
EmptyAnalysis(title, date) ==
    [document_title         |-> title,
     analysis_date          |-> date,
     mandatory_requirements |-> <<>>,
     optional_provisions    |-> <<>>,
     prohibited_actions     |-> <<>>,
     deadlines              |-> <<>>,
     penalties              |-> <<>>,
     key_metrics            |-> <<>>]

\* PrimaryClass with the prohibited triggers tested first.
PrimaryClassProhibitedFirst(sentence_lower) ==
    IF ContainsAny(sentence_lower, compliance_keywords.prohibited)
    THEN "prohibited_actions"
    ELSE IF ContainsAny(sentence_lower, compliance_keywords.mandatory)
    THEN "mandatory_requirements"
    ELSE IF ContainsAny(sentence_lower, compliance_keywords.optional)
    THEN "optional_provisions"
    ELSE "none"

\* The if / elif / elif chain over the three trigger sets: the key of the
\* sequence the sentence is appended to, or "none".
PrimaryClass(sentence_lower) ==
    IF ContainsAny(sentence_lower, compliance_keywords.mandatory)
    THEN "mandatory_requirements"
    ELSE IF ContainsAny(sentence_lower, compliance_keywords.optional)
    THEN "optional_provisions"
    ELSE IF ContainsAny(sentence_lower, compliance_keywords.prohibited)
    THEN "prohibited_actions"
    ELSE "none"

\* ClassifySentence with three independent "if" tests of the trigger sets.
ClassifySentenceIndependentIfs(a, sentence) ==
    LET sentence_lower == lower(sentence)
        deadline_match == deadline_search(sentence_lower)
    IN  [a EXCEPT
          !.mandatory_requirements =
              IF ContainsAny(sentence_lower, compliance_keywords.mandatory)
              THEN Append(@, strip(sentence)) ELSE @,
          !.optional_provisions =
              IF ContainsAny(sentence_lower, compliance_keywords.optional)
              THEN Append(@, strip(sentence)) ELSE @,
          !.prohibited_actions =
              IF ContainsAny(sentence_lower, compliance_keywords.prohibited)
              THEN Append(@, strip(sentence)) ELSE @,
          !.deadlines =
              IF deadline_match.ok
              THEN Append(@, [text |-> strip(sentence),
                              duration |-> deadline_match.group1 \o " "
                                           \o deadline_match.group2])
              ELSE @,
          !.penalties =
              IF ContainsAny(sentence_lower, compliance_keywords.penalties)
              THEN Append(@, strip(sentence)) ELSE @]

\* ClassifySentence with the penalty test chained to the primary classes by
\* "elif": a sentence with a primary class is never tagged as a penalty.
ClassifySentencePenaltyElif(a, sentence) ==
    LET sentence_lower == lower(sentence)
        class == PrimaryClass(sentence_lower)
        deadline_match == deadline_search(sentence_lower)
    IN  [a EXCEPT
          !.mandatory_requirements =
              IF class = "mandatory_requirements"
              THEN Append(@, strip(sentence)) ELSE @,
          !.optional_provisions =
              IF class = "optional_provisions"
              THEN Append(@, strip(sentence)) ELSE @,
          !.prohibited_actions =
              IF class = "prohibited_actions"
              THEN Append(@, strip(sentence)) ELSE @,
          !.deadlines =
              IF deadline_match.ok
              THEN Append(@, [text |-> strip(sentence),
                              duration |-> deadline_match.group1 \o " "
                                           \o deadline_match.group2])
              ELSE @,
          !.penalties =
              IF class = "none"
                 /\ ContainsAny(sentence_lower, compliance_keywords.penalties)
              THEN Append(@, strip(sentence)) ELSE @]

\* ClassifySentence recording the last deadline phrase of a sentence besides
\* the first.
ClassifySentenceLastDeadlineToo(a, sentence) ==
    LET sentence_lower == lower(sentence)
        class == PrimaryClass(sentence_lower)
        deadline_match == deadline_search(sentence_lower)
        starts == {i \in 1..Len(sentence_lower) :
                      DeadlineAt(sentence_lower, i).ok}
        last == DeadlineAt(sentence_lower, Max(starts))
        recorded(m) == [text |-> strip(sentence),
                        duration |-> m.group1 \o " " \o m.group2]
    IN  [a EXCEPT
          !.mandatory_requirements =
              IF class = "mandatory_requirements"
              THEN Append(@, strip(sentence)) ELSE @,
          !.optional_provisions =
              IF class = "optional_provisions"
              THEN Append(@, strip(sentence)) ELSE @,
          !.prohibited_actions =
              IF class = "prohibited_actions"
              THEN Append(@, strip(sentence)) ELSE @,
          !.deadlines =
              IF deadline_match.ok
              THEN IF Cardinality(starts) > 1
                   THEN @ \o <<recorded(deadline_match), recorded(last)>>
                   ELSE Append(@, recorded(deadline_match))
              ELSE @,
          !.penalties =
              IF ContainsAny(sentence_lower, compliance_keywords.penalties)
              THEN Append(@, strip(sentence)) ELSE @]

\* One iteration of the loop over the sentences.
ClassifySentence(a, sentence) ==
    LET sentence_lower == lower(sentence)
        class == PrimaryClass(sentence_lower)
        deadline_match == deadline_search(sentence_lower)
    IN  [a EXCEPT
          !.mandatory_requirements =
              IF class = "mandatory_requirements"
              THEN Append(@, strip(sentence)) ELSE @,
          !.optional_provisions =
              IF class = "optional_provisions"
              THEN Append(@, strip(sentence)) ELSE @,
          !.prohibited_actions =
              IF class = "prohibited_actions"
              THEN Append(@, strip(sentence)) ELSE @,
          !.deadlines =
              IF deadline_match.ok
              THEN Append(@, [text |-> strip(sentence),
                              duration |-> deadline_match.group1 \o " "
                                           \o deadline_match.group2])
              ELSE @,
          !.penalties =
              IF ContainsAny(sentence_lower, compliance_keywords.penalties)
              THEN Append(@, strip(sentence)) ELSE @]

\* The loop "for sentence in sentences", from the k-th sentence on.
RECURSIVE AnalyzeSentences(_, _, _)
AnalyzeSentences(a, ss, k) ==
    IF k > Len(ss) THEN a
    ELSE AnalyzeSentences(ClassifySentence(a, ss[k]), ss, k + 1)

-----------------------------------------------------------------------------
(* PolicyAnalysisTool._extract_metrics                                     *)

\* f"{p}%" for every percentage and f"${amount}" for every dollar amount.
WithSuffix(values, suffix) == [k \in 1..Len(values) |-> values[k] \o suffix]

WithPrefix(prefix, values) == [k \in 1..Len(values) |-> prefix \o values[k]]

\* The metrics dictionary, as the sequence of its (key, values) items in
\* insertion order; a key is inserted only when its pattern matched.
extract_metrics(text) ==
    LET percentages == findall_percentage(text)
        dollar_amounts == findall_dollar_amount(text)
        dates == findall_effective_date(text)
    IN  (IF percentages # <<>>
         THEN <<[key |-> "percentages",
                 values |-> WithSuffix(percentages, "%")]>>
         ELSE <<>>)
        \o (IF dollar_amounts # <<>>
            THEN <<[key |-> "dollar_amounts",
                    values |-> WithPrefix("$", dollar_amounts)]>>
            ELSE <<>>)
        \o (IF dates # <<>>
            THEN <<[key |-> "effective_dates", values |-> dates]>>
            ELSE <<>>)

-----------------------------------------------------------------------------
(* PolicyAnalysisTool._format_compliance_analysis                          *)

\* Display caps and character budgets of the report.
MandatoryCap == 5
ListCap == 3
MetricCap == 5
SentenceBudget == 200
DeadlineBudget == 150

\* One line appended to the output: its kind, the section it belongs to, the
\* number it prints and the text it prints.
Line(kind, section, num, text) ==
    [kind |-> kind, section |-> section, num |-> num, text |-> text]

Blank(section) == Line("blank", section, 0, "")

\* Shown with the marker from the budget length on.
ShownMarkedAtBudget(s, budget) ==
    Prefix(s, budget) \o (IF Len(s) >= budget THEN "..." ELSE "")

\* f"{s[:budget]}{'...' if len(s) > budget else ''}"
Shown(s, budget) ==
    Prefix(s, budget) \o (IF Len(s) > budget THEN "..." ELSE "")

\* The numbered lines of the first cap items of a sequence of sentences.
ItemLines(section, items, cap, budget) ==
    [i \in 1..(IF Len(items) < cap THEN Len(items) ELSE cap) |->
        Line("item", section, i, Shown(items[i], budget))]

\* "... and K more" after the items.
MoreLine(section, items, cap) ==
    IF Len(items) > cap
    THEN <<Line("more", section, Len(items) - cap, "")>>
    ELSE <<>>

\* ReportHead with the analysis date on the title line too.
ReportHeadDatedTitle(a) ==
    <<Line("title", "report", a.analysis_date,
           "Policy Compliance Analysis Report"),
      Line("document", "report", 0,
           IF a.document_title # "" THEN a.document_title
           ELSE "Untitled Document"),
      Line("date", "report", a.analysis_date, ""),
      Blank("report")>>

ReportHead(a) ==
    <<Line("title", "report", 0, "Policy Compliance Analysis Report"),
      Line("document", "report", 0,
           IF a.document_title # "" THEN a.document_title
           ELSE "Untitled Document"),
      Line("date", "report", a.analysis_date, ""),
      Blank("report")>>

\* MandatorySection with the header counting the items displayed.
MandatorySectionShownCount(a) ==
    IF a.mandatory_requirements # <<>>
    THEN <<Line("header", "mandatory_requirements",
                Len(ItemLines("mandatory_requirements",
                              a.mandatory_requirements, MandatoryCap,
                              SentenceBudget)), "")>>
         \o ItemLines("mandatory_requirements", a.mandatory_requirements,
                      MandatoryCap, SentenceBudget)
         \o MoreLine("mandatory_requirements", a.mandatory_requirements,
                     MandatoryCap)
         \o <<Blank("mandatory_requirements")>>
    ELSE <<>>

MandatorySection(a) ==
    IF a.mandatory_requirements # <<>>
    THEN <<Line("header", "mandatory_requirements",
                Len(a.mandatory_requirements), "")>>
         \o ItemLines("mandatory_requirements", a.mandatory_requirements,
                      MandatoryCap, SentenceBudget)
         \o MoreLine("mandatory_requirements", a.mandatory_requirements,
                     MandatoryCap)
         \o <<Blank("mandatory_requirements")>>
    ELSE <<>>

DeadlinesSection(a) ==
    IF a.deadlines # <<>>
    THEN <<Line("header", "deadlines", Len(a.deadlines), "")>>
         \o [i \in 1..(IF Len(a.deadlines) < ListCap THEN Len(a.deadlines)
                       ELSE ListCap) |->
                Line("item", "deadlines", i,
                     a.deadlines[i].duration \o " - "
                     \o Shown(a.deadlines[i].text, DeadlineBudget))]
         \o <<Blank("deadlines")>>
    ELSE <<>>

ProhibitedSection(a) ==
    IF a.prohibited_actions # <<>>
    THEN <<Line("header", "prohibited_actions", Len(a.prohibited_actions), "")>>
         \o ItemLines("prohibited_actions", a.prohibited_actions, ListCap,
                      SentenceBudget)
         \o <<Blank("prohibited_actions")>>
    ELSE <<>>

PenaltiesSection(a) ==
    IF a.penalties # <<>>
    THEN <<Line("header", "penalties", Len(a.penalties), "")>>
         \o ItemLines("penalties", a.penalties, ListCap, SentenceBudget)
         \o <<Blank("penalties")>>
    ELSE <<>>

OptionalSection(a) ==
    IF a.optional_provisions # <<>>
    THEN <<Line("header", "optional_provisions", Len(a.optional_provisions),
                "")>>
         \o ItemLines("optional_provisions", a.optional_provisions, ListCap,
                      SentenceBudget)
         \o <<Blank("optional_provisions")>>
    ELSE <<>>

\* ', '.join(values)
RECURSIVE Join(_)
Join(values) ==
    IF values = <<>> THEN ""
    ELSE IF Len(values) = 1 THEN values[1]
    ELSE values[1] \o ", " \o Join(Tail(values))

\* metric_type.replace('_', ' ').title() on the keys _extract_metrics sets.
MetricTitle(key) ==
    CASE key = "percentages" -> "Percentages"
      [] key = "dollar_amounts" -> "Dollar Amounts"
      [] key = "effective_dates" -> "Effective Dates"

MetricsSection(a) ==
    IF a.key_metrics # <<>>
    THEN <<Line("heading", "key_metrics", 0, "")>>
         \o [i \in 1..Len(a.key_metrics) |->
                Line("metric", "key_metrics", 0,
                     MetricTitle(a.key_metrics[i].key) \o ": "
                     \o Join(SubSeq(a.key_metrics[i].values, 1,
                                    IF Len(a.key_metrics[i].values) < MetricCap
                                    THEN Len(a.key_metrics[i].values)
                                    ELSE MetricCap)))]
         \o <<Blank("key_metrics")>>
    ELSE <<>>

\* SummarySection with penalties triggering the recommendation too.
SummarySectionPenaltiesToo(a) ==
    LET total_requirements == Len(a.mandatory_requirements)
        total_deadlines == Len(a.deadlines)
        total_penalties == Len(a.penalties)
    IN  <<Line("heading", "summary", 0, ""),
          Line("summary", "mandatory_requirements", total_requirements, ""),
          Line("summary", "deadlines", total_deadlines, ""),
          Line("summary", "penalties", total_penalties, "")>>
        \o (IF total_requirements > 0 \/ total_deadlines > 0
               \/ total_penalties > 0
            THEN <<Line("recommendation", "summary", 0, "")>>
            ELSE <<>>)

\* SummarySection with the recommendation tested by ">= 0".
SummarySectionAlways(a) ==
    LET total_requirements == Len(a.mandatory_requirements)
        total_deadlines == Len(a.deadlines)
        total_penalties == Len(a.penalties)
    IN  <<Line("heading", "summary", 0, ""),
          Line("summary", "mandatory_requirements", total_requirements, ""),
          Line("summary", "deadlines", total_deadlines, ""),
          Line("summary", "penalties", total_penalties, "")>>
        \o (IF total_requirements >= 0 \/ total_deadlines >= 0
            THEN <<Line("recommendation", "summary", 0, "")>>
            ELSE <<>>)

SummarySection(a) ==
    LET total_requirements == Len(a.mandatory_requirements)
        total_deadlines == Len(a.deadlines)
        total_penalties == Len(a.penalties)
    IN  <<Line("heading", "summary", 0, ""),
          Line("summary", "mandatory_requirements", total_requirements, ""),
          Line("summary", "deadlines", total_deadlines, ""),
          Line("summary", "penalties", total_penalties, "")>>
        \o (IF total_requirements > 0 \/ total_deadlines > 0
            THEN <<Line("recommendation", "summary", 0, "")>>
            ELSE <<>>)

\* format_compliance_analysis with the penalties ahead of the prohibited
\* actions.
format_penalties_first(a) ==
    ReportHead(a) \o MandatorySection(a) \o DeadlinesSection(a)
    \o PenaltiesSection(a) \o ProhibitedSection(a) \o OptionalSection(a)
    \o MetricsSection(a) \o SummarySection(a)

format_compliance_analysis(a) ==
    ReportHead(a) \o MandatorySection(a) \o DeadlinesSection(a)
    \o ProhibitedSection(a) \o PenaltiesSection(a) \o OptionalSection(a)
    \o MetricsSection(a) \o SummarySection(a)

-----------------------------------------------------------------------------
(* The inputs.                                                             *)

\* Text fragments a document is put together from.  A fragment that ends
\* with a terminal character closes a sentence; one that does not runs on
\* into the fragment that follows it.
Fragments ==
    {"Companies must comply within 30 days. ",
     "Entities shall not engage in prohibited transactions. ",
     "Firms may, but shall not, delay! ",
     "Banned items may remain? ",
     "Bribes are forbidden. ",
     "Staff cannot leave. ",
     "Agents shall not pay. Vendors must not lie. ",
     "This is a notice. ",
     "We define terms. ",
     "Agencies SHALL pay a penalty WITHIN 10 days or within 3 years. ",
     "Reply within 1 day; rates rise 50% to $10,000 effective on January 1, 2024. ",
     "Banks must report within 5 days. Fees may rise 2%. Gifts are banned. Fines apply. ",
     "Fees of $1,500.50 apply. ",
     "and fines apply ",
     " \n",
     "?!."}

RECURSIVE Repeat(_, _)
Repeat(s, n) == IF n = 0 THEN "" ELSE s \o Repeat(s, n - 1)

\* A word of n letters, put together by halves.
RECURSIVE Filler(_)
Filler(n) ==
    IF n = 0 THEN ""
    ELSE IF n = 1 THEN "x"
    ELSE Filler(n \div 2) \o Filler(n - n \div 2)

\* A sentence of n characters: a start and a last word that fills it up.
LongSentence(start, n) == start \o Filler(n - Len(start))

\* The fragments a document may end with.
Tails ==
    {"Companies must comply within 30 days. ",
     "Banned items may remain? ",
     "Staff cannot leave. ",
     "We define terms. ",
     "Reply within 1 day; rates rise 50% to $10,000 effective on January 1, 2024. ",
     "and fines apply ",
     " \n"}

Documents ==
    {Repeat(p, n) \o Repeat(q, m) :
        p \in Fragments, q \in Tails, n \in 0..MaxRepeat, m \in 0..MaxTail}

Titles == {"", "Test Policy"}

-----------------------------------------------------------------------------
(* The state machine: a caller holds a document and a title and calls      *)
(* analyze_compliance_requirements once.                                   *)

\* The types of the values a caller passes as document_text: a string, or a
\* value that is not one (None).
TextTypes == {"str", "NoneType"}

\* The arguments of a call: a document, or a value that is not a string, of
\* which only the type matters.
Arguments ==
    \/ text_type = "str" /\ document_text \in Documents
    \/ text_type \in TextTypes \ {"str"} /\ document_text = ""

\* No concurrent invocation, no comparison and no stakeholder extraction
\* has been asked for.
NoCalls == calls = <<>>

NoComparison ==
    /\ policy1_text = "" /\ policy1_title = ""
    /\ policy2_text = "" /\ policy2_title = ""
    /\ analysis1 = <<>> /\ analysis2 = <<>>
    /\ common_reqs = {} /\ unique_to_1 = {} /\ unique_to_2 = {}
    /\ comparison = <<>>

NoStakeholders == stakeholders = <<>> /\ stakeholder_report = <<>>

\* No collaborator has been called and the agent, which runs standalone,
\* has not been asked.
NoNavigator ==
    /\ tool_called = "" /\ tool_argument = "" /\ tool_outcome = <<>>
    /\ tool_results = <<>> /\ tool_returned = ""
    /\ agent = "None" /\ conversation_history = <<>>
    /\ user_query = "" /\ query_type = "str" /\ processing = "none"
    /\ invoked = <<>> /\ response = ""

Init ==
    /\ Arguments
    /\ document_title \in Titles
    /\ pc = "ready"
    /\ sentences = <<>>
    /\ analysis = EmptyAnalysis("", 0)
    /\ output = <<>>
    /\ previous = <<>>
    /\ NoCalls /\ NoComparison /\ NoStakeholders /\ NoNavigator

\* re.split raises TypeError on a value that is not a string; nothing in the
\* analyzer catches it, so the call ends with the exception and no report.
analyze_compliance_requirements ==
    /\ pc = "ready"
    /\ \/ /\ text_type = "str"
          /\ sentences' = split_into_sentences(document_text)
          /\ \E now \in 1..MaxClock :
               analysis' = [AnalyzeSentences(EmptyAnalysis(document_title, now),
                                             sentences', 1)
                              EXCEPT !.key_metrics =
                                         extract_metrics(document_text)]
          /\ output' = format_compliance_analysis(analysis')
          /\ pc' = "returned"
       \/ /\ text_type # "str"
          /\ pc' = "raised"
          /\ UNCHANGED <<sentences, analysis, output>>
    /\ UNCHANGED <<document_text, document_title, text_type, previous, calls,
                   compareVars, stakeholderVars,
                   toolVars, agentVars>>

Next == analyze_compliance_requirements

Spec == Init /\ [][Next]_vars

\* The caller keeps the report it got and gets ready to call again with the
\* same text and title.
call_again ==
    /\ pc = "returned"
    /\ previous' = output
    /\ pc' = "ready"
    /\ UNCHANGED <<document_text, document_title, text_type, sentences,
                   analysis, output, calls, compareVars, stakeholderVars,
                   toolVars, agentVars>>

NextRepeated == analyze_compliance_requirements \/ call_again

\* A caller that calls analyze_compliance_requirements time and again.
SpecRepeated == Init /\ [][NextRepeated]_vars

-----------------------------------------------------------------------------
(* Properties of the compliance analysis.                                  *)

Returned == pc = "returned"

Range(seq) == {seq[i] : i \in 1..Len(seq)}

HasMandatory(s) == ContainsAny(lower(s), compliance_keywords.mandatory)

HasOptional(s) == ContainsAny(lower(s), compliance_keywords.optional)

HasProhibited(s) == ContainsAny(lower(s), compliance_keywords.prohibited)

HasPenalty(s) == ContainsAny(lower(s), compliance_keywords.penalties)

\* The positions of the lower-cased sentence at which a phrase
\* "within <N> <unit>" starts.
DeadlinePhrases(s) == {i \in 1..Len(s) : DeadlineAt(lower(s), i).ok}

\* The deadline a phrase at position i stands for: "<N> <unit>".
DeadlineOf(s, i) ==
    [text |-> s,
     duration |-> DeadlineAt(lower(s), i).group1 \o " "
                  \o DeadlineAt(lower(s), i).group2]

\* C1: when the analysis has returned, no sentence text is in two of
\* mandatory_requirements, optional_provisions and prohibited_actions.
C1_PrimaryClassesDisjoint ==
    Returned =>
        LET M == Range(analysis.mandatory_requirements)
            O == Range(analysis.optional_provisions)
            P == Range(analysis.prohibited_actions)
        IN  M \cap O = {} /\ M \cap P = {} /\ O \cap P = {}

\* A returned analysis with sentences in all three primary classes.
C1_Witness ==
    /\ Returned
    /\ analysis.mandatory_requirements # <<>>
    /\ analysis.optional_provisions # <<>>
    /\ analysis.prohibited_actions # <<>>

IsMandatory(s) == HasMandatory(s)

IsOptional(s) == ~HasMandatory(s) /\ HasOptional(s)

IsProhibited(s) == ~HasMandatory(s) /\ ~HasOptional(s) /\ HasProhibited(s)

\* C2: the first matching trigger set in the order mandatory, optional,
\* prohibited decides: mandatory_requirements holds, in order, exactly the
\* sentences with a mandatory trigger, optional_provisions those with an
\* optional but no mandatory trigger, prohibited_actions those with a
\* prohibited trigger and neither of the others, and a sentence with no
\* trigger is in none of the three.
C2_FirstMatchWins ==
    Returned =>
        /\ analysis.mandatory_requirements = SelectSeq(sentences, IsMandatory)
        /\ analysis.optional_provisions = SelectSeq(sentences, IsOptional)
        /\ analysis.prohibited_actions = SelectSeq(sentences, IsProhibited)
        /\ \A s \in Range(sentences) :
             ~HasMandatory(s) /\ ~HasOptional(s) /\ ~HasProhibited(s)
             => /\ s \notin Range(analysis.mandatory_requirements)
                /\ s \notin Range(analysis.optional_provisions)
                /\ s \notin Range(analysis.prohibited_actions)

\* A returned analysis of a document with a sentence holding triggers of all
\* three sets and a sentence holding optional and prohibited triggers but no
\* mandatory one.
C2_Witness ==
    /\ Returned
    /\ \E s \in Range(sentences) :
         HasMandatory(s) /\ HasOptional(s) /\ HasProhibited(s)
    /\ \E s \in Range(sentences) :
         ~HasMandatory(s) /\ HasOptional(s) /\ HasProhibited(s)

ShallNotSentence == "Entities shall not engage in prohibited transactions"

\* C3: the sentence "Entities shall not engage in prohibited transactions."
\* is recorded in prohibited_actions and not in mandatory_requirements.
C3_ShallNotIsProhibited ==
    Returned /\ ShallNotSentence \in Range(sentences) =>
        /\ ShallNotSentence \in Range(analysis.prohibited_actions)
        /\ ShallNotSentence \notin Range(analysis.mandatory_requirements)

CompaniesDocument == "Companies must comply within 30 days. "

CompaniesSentence == "Companies must comply within 30 days"

\* C4 as stated: every sentence with a mandatory trigger is in
\* mandatory_requirements and not in prohibited_actions, and every phrase
\* "within <N> <unit>" it contains gives a deadline "<N> <unit>" of that
\* sentence.
C4_EveryDeadlinePhraseRecorded ==
    Returned =>
        \A s \in Range(sentences) : \A i \in DeadlinePhrases(s) :
            HasMandatory(s) =>
                /\ s \in Range(analysis.mandatory_requirements)
                /\ DeadlineOf(s, i) \in Range(analysis.deadlines)
                /\ s \notin Range(analysis.prohibited_actions)

\* C4, amended: every sentence with a mandatory trigger and a phrase
\* "within <N> <unit>" is in mandatory_requirements, not in
\* prohibited_actions, and in deadlines with the duration of its first such
\* phrase and no other; "Companies must comply within 30 days." gives one
\* mandatory requirement, the deadline "30 days" and no prohibited action.
C4_MandatoryWithFirstDeadline ==
    Returned =>
        /\ \A s \in Range(sentences) :
             HasMandatory(s) /\ DeadlinePhrases(s) # {} =>
                /\ s \in Range(analysis.mandatory_requirements)
                /\ s \notin Range(analysis.prohibited_actions)
                /\ \A d \in Range(analysis.deadlines) :
                     d.text = s => d = DeadlineOf(s, Min(DeadlinePhrases(s)))
                /\ \E d \in Range(analysis.deadlines) : d.text = s
        /\ document_text = CompaniesDocument =>
              /\ analysis.mandatory_requirements = <<CompaniesSentence>>
              /\ analysis.deadlines =
                   <<[text |-> CompaniesSentence, duration |-> "30 days"]>>
              /\ analysis.prohibited_actions = <<>>

\* A returned analysis of a document with a mandatory sentence holding two
\* deadline phrases of different durations.
C4_Witness ==
    /\ Returned
    /\ \E s \in Range(sentences) :
         /\ HasMandatory(s)
         /\ \E i, j \in DeadlinePhrases(s) :
              i < j /\ DeadlineOf(s, i) # DeadlineOf(s, j)
         /\ s \in Range(analysis.mandatory_requirements)

\* C5: penalties holds, in order, exactly the sentences whose lower-cased
\* text contains a penalty keyword, whatever their primary class.
C5_PenaltiesIndependent ==
    Returned => analysis.penalties = SelectSeq(sentences, HasPenalty)

\* A returned analysis with a penalty sentence that is also mandatory and a
\* penalty sentence of no primary class.
C5_Witness ==
    /\ Returned
    /\ \E s \in Range(analysis.penalties) :
         s \in Range(analysis.mandatory_requirements)
    /\ \E s \in Range(analysis.penalties) :
         /\ s \notin Range(analysis.mandatory_requirements)
         /\ s \notin Range(analysis.optional_provisions)
         /\ s \notin Range(analysis.prohibited_actions)

\* The sections that list a sequence of the analysis, with their caps.
ListSections ==
    {"mandatory_requirements", "deadlines", "prohibited_actions",
     "penalties", "optional_provisions"}

CapOf(section) ==
    IF section = "mandatory_requirements" THEN MandatoryCap ELSE ListCap

LinesOf(kind, section) ==
    {i \in 1..Len(output) :
        output[i].kind = kind /\ output[i].section = section}

\* C6: a category with more items than its cap shows exactly cap items,
\* followed by a "... and K more" line with cap + K the category's count.
C6_TruncationLaw ==
    Returned =>
        \A section \in ListSections :
            Len(analysis[section]) > CapOf(section) =>
                /\ Cardinality(LinesOf("item", section)) = CapOf(section)
                /\ \E i \in LinesOf("more", section) :
                     /\ CapOf(section) + output[i].num = Len(analysis[section])
                     /\ \A j \in LinesOf("item", section) : j < i

\* C7: every section header of the report prints the full length of the
\* sequence of its category.
C7_HeaderCountsFull ==
    Returned =>
        \A section \in ListSections : \A i \in LinesOf("header", section) :
            output[i].num = Len(analysis[section])

\* A returned report whose mandatory section is truncated: fewer items are
\* displayed than the header counts.
C7_Witness ==
    /\ Returned
    /\ Len(analysis.mandatory_requirements) > MandatoryCap
    /\ LinesOf("header", "mandatory_requirements") # {}
    /\ Cardinality(LinesOf("item", "mandatory_requirements")) = MandatoryCap

SectionOrder ==
    <<"mandatory_requirements", "deadlines", "prohibited_actions",
      "penalties", "optional_provisions", "key_metrics", "summary">>

\* The sections of the report in the order of their first lines.
SectionStarts ==
    {i \in 1..Len(output) : output[i].kind \in {"header", "heading"}}

OrderIndex(section) == CHOOSE k \in 1..Len(SectionOrder) : SectionOrder[k] = section

\* C8: the sections of the report start in the order mandatory
\* requirements, deadlines, prohibited actions, penalties, optional
\* provisions, key metrics, summary, and a section of the first six is in
\* the report only if its sequence is not empty.
C8_SectionOrder ==
    Returned =>
        /\ \A i \in SectionStarts : output[i].section \in Range(SectionOrder)
        /\ \A i, j \in SectionStarts :
             i < j => OrderIndex(output[i].section) < OrderIndex(output[j].section)
        /\ \A i \in SectionStarts :
             output[i].section # "summary" => analysis[output[i].section] # <<>>

\* A returned report with all seven sections.
C8_Witness ==
    /\ Returned
    /\ {output[i].section : i \in SectionStarts} = Range(SectionOrder)

HasRecommendation == \E i \in 1..Len(output) : output[i].kind = "recommendation"

\* C9: the summary reports the counts of mandatory requirements, deadlines
\* and penalties, and the recommendation line is in the report exactly when
\* the count of mandatory requirements or of deadlines is positive.
C9_SummaryAndRecommendation ==
    Returned =>
        /\ \A section \in {"mandatory_requirements", "deadlines", "penalties"} :
             /\ Cardinality(LinesOf("summary", section)) = 1
             /\ \A i \in LinesOf("summary", section) :
                  output[i].num = Len(analysis[section])
        /\ HasRecommendation <=> \/ Len(analysis.mandatory_requirements) > 0
                                 \/ Len(analysis.deadlines) > 0

\* A returned report with penalties but neither mandatory requirements nor
\* deadlines, and so without the recommendation.
C9_Witness ==
    /\ Returned
    /\ Len(analysis.penalties) > 0
    /\ Len(analysis.mandatory_requirements) = 0
    /\ Len(analysis.deadlines) = 0
    /\ ~HasRecommendation

\* C10: for an empty or whitespace-only document every sequence of the
\* analysis is empty and the report is still rendered: it has no list
\* section, its summary counts are zero and it has no recommendation line.
C10_EmptyDocument ==
    Returned /\ strip(document_text) = "" =>
        /\ \A section \in ListSections : analysis[section] = <<>>
        /\ analysis.key_metrics = <<>>
        /\ SectionStarts # {}
        /\ \A i \in SectionStarts : output[i].section = "summary"
        /\ \A i \in 1..Len(output) : output[i].kind # "item"
        /\ \A section \in {"mandatory_requirements", "deadlines", "penalties"} :
             \E i \in LinesOf("summary", section) : output[i].num = 0
        /\ ~HasRecommendation

\* A returned report of a document that is not empty but holds only
\* whitespace.
C10_Witness ==
    /\ Returned
    /\ Len(document_text) > 0
    /\ strip(document_text) = ""
    /\ Len(output) > 0

-----------------------------------------------------------------------------
(* Totality, sentence splitting and metrics.                               *)

\* C11: the analysis never fails: whatever is passed as document text, a
\* string (the empty one included) or a value that is not a string, a call
\* that has ended has returned a report, and has not raised.
C11_AlwaysReturnsReport ==
    pc # "ready" => pc = "returned" /\ output # <<>>

\* The maximal spans of a text that hold no terminal character, by the
\* position they start at.
SpanStarts(text) ==
    {i \in 1..Len(text) :
        /\ Char(text, i) \notin TerminalChars
        /\ (i = 1 \/ Char(text, i - 1) \in TerminalChars)}

SpanFrom(text, i) == SubSeq(text, i, FirstOf(text, i, TerminalChars) - 1)

\* The starts of the spans that hold more than whitespace.
SentenceStarts(text) == {i \in SpanStarts(text) : NonBlank(SpanFrom(text, i))}

\* C12: the sentences returned are, in document order, the trimmed spans
\* between the runs of '.', '!' and '?' that hold more than whitespace, the
\* span after the last run included: every sentence is non-empty, has no
\* leading or trailing whitespace and holds no terminal character.
C12_SentencesAreTrimmedSpans ==
    Returned =>
        LET starts == SentenceStarts(document_text)
        IN  /\ Len(sentences) = Cardinality(starts)
            /\ \A i \in starts :
                 sentences[Cardinality({j \in starts : j <= i})]
                     = strip(SpanFrom(document_text, i))
            /\ \A k \in 1..Len(sentences) :
                 /\ sentences[k] # ""
                 /\ strip(sentences[k]) = sentences[k]
                 /\ \A i \in 1..Len(sentences[k]) :
                      Char(sentences[k], i) \notin TerminalChars

\* A document whose last span has no terminal punctuation and starts with
\* whitespace has been split, and the span is the last sentence.
C12_Witness ==
    /\ Returned
    /\ document_text = "We define terms. and fines apply "
    /\ sentences = <<"We define terms", "and fines apply">>

MetricValues(a, key) ==
    LET items == SelectSeq(a.key_metrics, LAMBDA item : item.key = key)
    IN  IF items = <<>> THEN <<>> ELSE items[1].values

\* n copies of one value followed by m copies of another.
Copies(n, first, m, second) ==
    [k \in 1..(n + m) |-> IF k <= n THEN first ELSE second]

MetricsFragment ==
    "Reply within 1 day; rates rise 50% to $10,000 effective on January 1, 2024. "

TwoPercentFragment ==
    "Banks must report within 5 days. Fees may rise 2%. Gifts are banned. Fines apply. "

CentsFragment == "Fees of $1,500.50 apply. "

\* C13: the metrics are taken from the whole text in the order they occur: a
\* document that holds "$10,000", "50%" and "effective on January 1, 2024"
\* gives the dollar amount "$10,000", the percentage "50%" and the effective
\* date "January 1, 2024" (the date part only); earlier percentages come
\* first, repeated values are repeated, and an amount with cents that spans
\* a sentence boundary is taken whole.
C13_MetricsInOrder ==
    Returned =>
        \A n \in 0..(MaxRepeat + 1), m \in 0..(MaxTail + 1) :
            /\ document_text = Repeat(TwoPercentFragment, n)
                                 \o Repeat(MetricsFragment, m)
               => /\ MetricValues(analysis, "percentages")
                       = Copies(n, "2%", m, "50%")
                  /\ MetricValues(analysis, "dollar_amounts")
                       = Copies(m, "$10,000", 0, "")
                  /\ MetricValues(analysis, "effective_dates")
                       = Copies(m, "January 1, 2024", 0, "")
            /\ document_text = Repeat(CentsFragment, n)
               => MetricValues(analysis, "dollar_amounts")
                       = Copies(n, "$1,500.50", 0, "")

C13_Witness ==
    /\ Returned
    /\ document_text = TwoPercentFragment \o MetricsFragment
    /\ MetricValues(analysis, "percentages") = <<"2%", "50%">>
    /\ MetricValues(analysis, "dollar_amounts") = <<"$10,000">>
    /\ MetricValues(analysis, "effective_dates") = <<"January 1, 2024">>

\* C14: two calls with the same text and title return reports that are the
\* same line by line, except for the line that prints the analysis date.
C14_SameReportButDate ==
    Returned /\ previous # <<>> =>
        /\ Len(output) = Len(previous)
        /\ \A k \in 1..Len(output) :
             \/ output[k] = previous[k]
             \/ output[k].kind = "date" /\ previous[k].kind = "date"

\* A second call has returned, at another time than the first, a report with
\* sections.
C14_Witness ==
    /\ Returned
    /\ previous # <<>>
    /\ \E k \in 1..Len(output) :
         output[k].kind = "date" /\ output[k] # previous[k]
    /\ \E k \in 1..Len(output) : output[k].kind = "item"

-----------------------------------------------------------------------------
(* Callers that share one analyzer.  Each invocation of                    *)
(* analyze_compliance_requirements runs on its own locals, one block of    *)
(* statements at a time, interleaved with the other invocations.  The      *)
(* keyword and pattern tables are assigned in __init__ and nowhere else,   *)
(* which is why they are definitions and no variable.                      *)

Callers == {1, 2}

ConcurrentDocuments ==
    {"",
     "Companies must comply within 30 days. ",
     TwoPercentFragment,
     "Agencies SHALL pay a penalty WITHIN 10 days or within 3 years. "
         \o "and fines apply "}

\* An invocation that has not started: its arguments, its position, its
\* locals, and whether a step of it was taken while another invocation was
\* in its loop (a history of the interleaving, read by no action).
NewCall(type, text, title) ==
    [type |-> type, text |-> text, title |-> title, pc |-> "ready",
     sentences |-> <<>>, k |-> 0, analysis |-> EmptyAnalysis("", 0),
     output |-> <<>>, overlapped |-> FALSE]

NoAnalysis ==
    /\ document_text = "" /\ document_title = "" /\ text_type = "str"
    /\ sentences = <<>> /\ analysis = EmptyAnalysis("", 0)
    /\ output = <<>> /\ previous = <<>>

InitConcurrent ==
    /\ calls \in [Callers ->
                    {NewCall("str", text, title) :
                        text \in ConcurrentDocuments, title \in Titles}
                    \cup {NewCall(type, "", title) :
                            type \in TextTypes \ {"str"}, title \in Titles}]
    /\ pc = "ready"
    /\ NoAnalysis /\ NoComparison /\ NoStakeholders /\ NoNavigator

\* Whether an invocation other than c is in its loop.
OtherInLoop(c) == \E d \in Callers \ {c} : calls[d].pc = "loop"

\* The analysis dictionary invocation c works on, were it kept on the
\* analyzer and shared by the invocations.
SharedAnalysis(c) == calls[CHOOSE d \in Callers : \A e \in Callers : d <= e].analysis

\* The analysis dictionary invocation c works on: a local of the call.
LocalAnalysis(c) == calls[c].analysis

\* Lines 45-59: the dictionary is built and the text is split.
begin(c) ==
    /\ calls[c].pc = "ready"
    /\ \/ /\ calls[c].type = "str"
          /\ \E now \in 1..MaxClock :
               calls' = [calls EXCEPT ![c] =
                           [@ EXCEPT !.pc = "loop",
                                     !.analysis =
                                         EmptyAnalysis(calls[c].title, now),
                                     !.sentences =
                                         split_into_sentences(calls[c].text),
                                     !.k = 1,
                                     !.overlapped = OtherInLoop(c)]]
       \/ /\ calls[c].type # "str"
          /\ calls' = [calls EXCEPT ![c].pc = "raised"]
    /\ UNCHANGED <<document_text, document_title, text_type, pc, sentences,
                   analysis, output, previous, compareVars, stakeholderVars,
                   toolVars, agentVars>>

\* Lines 61-86: one turn of the loop over the sentences.
iterate(c) ==
    /\ calls[c].pc = "loop"
    /\ calls[c].k <= Len(calls[c].sentences)
    /\ calls' = [calls EXCEPT ![c] =
                   [@ EXCEPT !.analysis =
                                 ClassifySentence(LocalAnalysis(c),
                                     calls[c].sentences[calls[c].k]),
                             !.k = @ + 1,
                             !.overlapped = @ \/ OtherInLoop(c)]]
    /\ UNCHANGED <<document_text, document_title, text_type, pc, sentences,
                   analysis, output, previous, compareVars, stakeholderVars,
                   toolVars, agentVars>>

\* Lines 88-91: the metrics are extracted and the report is formatted.
finish(c) ==
    /\ calls[c].pc = "loop"
    /\ calls[c].k > Len(calls[c].sentences)
    /\ calls' = [calls EXCEPT ![c] =
                   [@ EXCEPT !.pc = "returned",
                             !.analysis =
                                 [LocalAnalysis(c) EXCEPT !.key_metrics =
                                     extract_metrics(calls[c].text)],
                             !.output =
                                 format_compliance_analysis(
                                     [LocalAnalysis(c) EXCEPT !.key_metrics =
                                         extract_metrics(calls[c].text)]),
                             !.overlapped = @ \/ OtherInLoop(c)]]
    /\ UNCHANGED <<document_text, document_title, text_type, pc, sentences,
                   analysis, output, previous, compareVars, stakeholderVars,
                   toolVars, agentVars>>

NextConcurrent == \E c \in Callers : begin(c) \/ iterate(c) \/ finish(c)

SpecConcurrent == InitConcurrent /\ [][NextConcurrent]_vars

\* The report a call returns when it runs alone, at the time it read.
AloneReport(call) ==
    format_compliance_analysis(
        [AnalyzeSentences(EmptyAnalysis(call.title, call.analysis.analysis_date),
                          split_into_sentences(call.text), 1)
           EXCEPT !.key_metrics = extract_metrics(call.text)])

\* C15: invocations that run at the same time on one analyzer do not
\* interfere: however their steps interleave, an invocation that has
\* returned has returned the report it returns when it runs alone.
C15_CallsDoNotInterfere ==
    \A c \in DOMAIN calls :
        calls[c].pc = "returned" => calls[c].output = AloneReport(calls[c])

\* Two invocations on different texts have returned, each having taken
\* steps while the other was in its loop.
C15_Witness ==
    /\ DOMAIN calls = Callers
    /\ \A c \in Callers :
         /\ calls[c].pc = "returned"
         /\ calls[c].overlapped
         /\ Len(calls[c].sentences) >= 2
    /\ calls[1].text # calls[2].text

-----------------------------------------------------------------------------
(* PolicyAnalysisTool._analyze_for_comparison                              *)

\* re.findall(r'\b\w+\b', s) from position i on: the maximal runs of word
\* characters, left to right.
RECURSIVE findall_words(_, _)
findall_words(s, i) ==
    LET b == FirstOf(s, i, WordChars)
        e == RunEnd(s, b, WordChars)
    IN  IF b > Len(s) THEN <<>>
        ELSE <<SubSeq(s, b, e - 1)>> \o findall_words(s, e)

\* A word is a key term when it is longer than this.
KeyTermLength == 4

\* IsKeyTerm accepting the words of four letters too.
IsKeyTermFromFour(w) == Len(w) >= KeyTermLength

IsKeyTerm(w) == Len(w) > KeyTermLength

\* The list mandatory_keywords after the loop over sentences k, k + 1, ...:
\* the key terms of every sentence that holds a mandatory keyword, with
\* their repetitions.
RECURSIVE KeyTerms(_, _)
KeyTerms(ss, k) ==
    IF k > Len(ss) THEN <<>>
    ELSE (IF ContainsAny(lower(ss[k]), compliance_keywords.mandatory)
          THEN SelectSeq(findall_words(lower(ss[k]), 1), IsKeyTerm)
          ELSE <<>>)
         \o KeyTerms(ss, k + 1)

\* complexity_score counting every occurrence of a key term.
complexity_score_with_repetitions(ss, mandatory_keywords) ==
    Len(ss) + Len(mandatory_keywords) * 2

\* len(sentences) + len(set(mandatory_keywords)) * 2
complexity_score(ss, mandatory_keywords) ==
    Len(ss) + Cardinality(Range(mandatory_keywords)) * 2

\* The dictionary returned; list(set(mandatory_keywords)) is a list without
\* repetitions in an order the language leaves open, held here as a set.
analyze_for_comparison(text) ==
    LET ss == split_into_sentences(text)
        mandatory_keywords == KeyTerms(ss, 1)
    IN  [mandatory_keywords |-> Range(mandatory_keywords),
         complexity_score   |-> complexity_score(ss, mandatory_keywords),
         sentence_count     |-> Len(ss)]

-----------------------------------------------------------------------------
(* PolicyAnalysisTool.compare_policies                                     *)

\* CompareSets with the second difference a copy of the first.
CompareSetsCopiedLine(a1, a2) ==
    [common_reqs |-> a1.mandatory_keywords \cap a2.mandatory_keywords,
     unique_to_1 |-> a1.mandatory_keywords \ a2.mandatory_keywords,
     unique_to_2 |-> a1.mandatory_keywords \ a2.mandatory_keywords]

\* The three sets of lines 209-211.
CompareSets(a1, a2) ==
    [common_reqs |-> a1.mandatory_keywords \cap a2.mandatory_keywords,
     unique_to_1 |-> a1.mandatory_keywords \ a2.mandatory_keywords,
     unique_to_2 |-> a2.mandatory_keywords \ a1.mandatory_keywords]

\* The number of words of a set a line lists.
ShownWords == 5

\* list(S)[:5]: the first words of a set in the order the set is iterated
\* in, which the language leaves open: any ShownWords of its words, or all
\* of them when there are fewer.
FirstWords(S) ==
    IF Cardinality(S) <= ShownWords THEN {S}
    ELSE {T \in SUBSET S : Cardinality(T) = ShownWords}

\* One line appended to the comparison report: its kind, the policy title it
\* prints, the number it prints and the words it lists.
ComparisonLine(kind, title, num, words) ==
    [kind |-> kind, title |-> title, num |-> num, words |-> words]

\* RecommendationLines recommending the first policy on a tie too.
RecommendationLinesOnTie(a1, title1, a2, title2) ==
    IF a1.complexity_score >= a2.complexity_score
    THEN <<ComparisonLine("recommendation", title1, 0, {})>>
    ELSE IF a2.complexity_score > a1.complexity_score
    THEN <<ComparisonLine("recommendation", title2, 0, {})>>
    ELSE <<>>

\* Lines 224-227.
RecommendationLines(a1, title1, a2, title2) ==
    IF a1.complexity_score > a2.complexity_score
    THEN <<ComparisonLine("recommendation", title1, 0, {})>>
    ELSE IF a2.complexity_score > a1.complexity_score
    THEN <<ComparisonLine("recommendation", title2, 0, {})>>
    ELSE <<>>

\* The report, given the day and the words each of the three lines lists.
ComparisonReport(a1, title1, a2, title2, sets, today, shown) ==
    <<ComparisonLine("title", "", 0, {}),
      ComparisonLine("policy_a", title1, 0, {}),
      ComparisonLine("policy_b", title2, 0, {}),
      ComparisonLine("date", "", today, {}),
      ComparisonLine("blank", "", 0, {}),
      ComparisonLine("header", "mandatory", 0, {}),
      ComparisonLine("common", "", Cardinality(sets.common_reqs), shown[1]),
      ComparisonLine("unique", title1, Cardinality(sets.unique_to_1), shown[2]),
      ComparisonLine("unique", title2, Cardinality(sets.unique_to_2), shown[3]),
      ComparisonLine("blank", "", 0, {}),
      ComparisonLine("header", "complexity", 0, {}),
      ComparisonLine("score", title1, a1.complexity_score, {}),
      ComparisonLine("score", title2, a2.complexity_score, {}),
      ComparisonLine("blank", "", 0, {})>>
    \o RecommendationLines(a1, title1, a2, title2)
\* A policy text is a fragment repeated up to MaxPolicyRepeat times and a
\* tail.
MaxPolicyRepeat == 2

PolicyFragments ==
    {"Companies must comply within 30 days. ",
     TwoPercentFragment,
     "Agencies SHALL pay a penalty WITHIN 10 days or within 3 years. ",
     "This is a notice. "}

PolicyTails == {"", "Firms must file. "}

PolicyTexts ==
    {Repeat(p, n) \o q :
        p \in PolicyFragments, q \in PolicyTails, n \in 0..MaxPolicyRepeat}

PolicyTitles == {"Policy A", "Policy B"}

InitCompare ==
    /\ policy1_text \in PolicyTexts /\ policy1_title \in PolicyTitles
    /\ policy2_text \in PolicyTexts /\ policy2_title \in PolicyTitles
    /\ analysis1 = <<>> /\ analysis2 = <<>>
    /\ common_reqs = {} /\ unique_to_1 = {} /\ unique_to_2 = {}
    /\ comparison = <<>>
    /\ pc = "ready"
    /\ NoAnalysis /\ NoCalls /\ NoStakeholders /\ NoNavigator

compare_policies ==
    /\ pc = "ready"
    /\ analysis1' = analyze_for_comparison(policy1_text)
    /\ analysis2' = analyze_for_comparison(policy2_text)
    /\ common_reqs' = CompareSets(analysis1', analysis2').common_reqs
    /\ unique_to_1' = CompareSets(analysis1', analysis2').unique_to_1
    /\ unique_to_2' = CompareSets(analysis1', analysis2').unique_to_2
    /\ \E today \in 1..MaxClock :
       \E shown \in FirstWords(common_reqs') \X FirstWords(unique_to_1')
                      \X FirstWords(unique_to_2') :
           comparison' = ComparisonReport(analysis1', policy1_title,
                                          analysis2', policy2_title,
                                          CompareSets(analysis1', analysis2'),
                                          today, shown)
    /\ pc' = "returned"
    /\ UNCHANGED <<policy1_text, policy1_title, policy2_text, policy2_title,
                   document_text, document_title, text_type, sentences,
                   analysis, output, previous, calls, stakeholderVars,
                   toolVars, agentVars>>

NextCompare == compare_policies

SpecCompare == InitCompare /\ [][NextCompare]_vars

-----------------------------------------------------------------------------
(* Properties of the policy comparison.                                    *)

\* C16: the comparison is symmetric: comparing the policies the other way
\* round gives the same common set, and the two unique sets change places.
C16_ComparisonSymmetric ==
    Returned /\ comparison # <<>> =>
        LET swapped == CompareSets(analyze_for_comparison(policy2_text),
                                   analyze_for_comparison(policy1_text))
        IN  /\ common_reqs = swapped.common_reqs
            /\ unique_to_1 = swapped.unique_to_2
            /\ unique_to_2 = swapped.unique_to_1

\* Two policies have been compared that share key terms and have key terms
\* of their own each.
C16_Witness ==
    /\ Returned /\ comparison # <<>>
    /\ common_reqs # {} /\ unique_to_1 # {} /\ unique_to_2 # {}
    /\ unique_to_1 # unique_to_2

\* The word tokens of a lower-cased sentence: the maximal runs of word
\* characters, by the position they start at.
WordTokens(s) ==
    LET l == lower(s)
    IN  {SubSeq(l, i, RunEnd(l, i, WordChars) - 1) :
            i \in {j \in 1..Len(l) :
                      /\ Char(l, j) \in WordChars
                      /\ (j = 1 \/ Char(l, j - 1) \notin WordChars)}}

\* The sentences of a text the sentence classifier records as mandatory.
ClassifiedMandatory(text) ==
    Range(AnalyzeSentences(EmptyAnalysis("", 0), split_into_sentences(text),
                           1).mandatory_requirements)

KeywordsOfClassified(text) ==
    UNION {{w \in WordTokens(s) : Len(w) > 4} : s \in ClassifiedMandatory(text)}

\* C17: for each policy, the comparator's mandatory-keyword set is the set
\* of the lower-cased word tokens longer than 4 characters of the sentences
\* the sentence classifier records as mandatory, and of no other sentence.
C17_KeywordsOfMandatorySentences ==
    Returned /\ comparison # <<>> =>
        /\ analysis1.mandatory_keywords = KeywordsOfClassified(policy1_text)
        /\ analysis2.mandatory_keywords = KeywordsOfClassified(policy2_text)

\* A policy with a mandatory sentence, an optional one and a prohibited one
\* has been compared: its keywords hold words of the first only.
C17_Witness ==
    /\ Returned /\ comparison # <<>>
    /\ policy1_text = TwoPercentFragment
    /\ analysis1.mandatory_keywords = {"banks", "report", "within"}

\* C18: the complexity score of a policy is its number of sentences plus
\* twice its number of distinct mandatory keywords: a keyword met in several
\* sentences counts once.
C18_ComplexityScore ==
    Returned /\ comparison # <<>> =>
        /\ analysis1.complexity_score
             = Len(split_into_sentences(policy1_text))
               + 2 * Cardinality(analysis1.mandatory_keywords)
        /\ analysis2.complexity_score
             = Len(split_into_sentences(policy2_text))
               + 2 * Cardinality(analysis2.mandatory_keywords)

\* A policy that repeats a mandatory sentence has been scored: 2 sentences
\* and 3 distinct keywords.
C18_Witness ==
    /\ Returned /\ comparison # <<>>
    /\ policy1_text = Repeat("Companies must comply within 30 days. ", 2)
    /\ analysis1.complexity_score = 8

RecommendationsOf(report) ==
    SelectSeq(report, LAMBDA line : line.kind = "recommendation")

\* C19: the recommendation line names the policy whose complexity score is
\* strictly the higher, and there is none when the scores are equal, as they
\* are when a policy is compared with itself.
C19_RecommendationStrictlyHigher ==
    Returned /\ comparison # <<>> =>
        LET s1 == analysis1.complexity_score
            s2 == analysis2.complexity_score
            named == [k \in 1..Len(RecommendationsOf(comparison)) |->
                         RecommendationsOf(comparison)[k].title]
        IN  /\ s1 > s2 => named = <<policy1_title>>
            /\ s2 > s1 => named = <<policy2_title>>
            /\ s1 = s2 => named = <<>>
            /\ policy1_text = policy2_text => named = <<>>

\* The second of two policies with different titles has the higher score
\* and is the one recommended.
C19_Witness ==
    /\ Returned /\ comparison # <<>>
    /\ policy1_title # policy2_title
    /\ analysis2.complexity_score > analysis1.complexity_score
    /\ analysis1.complexity_score > 0
    /\ \E k \in 1..Len(comparison) :
         comparison[k].kind = "recommendation"
         /\ comparison[k].title = policy2_title

-----------------------------------------------------------------------------
(* PolicyAnalysisTool.extract_stakeholders                                 *)

\* The six stakeholder patterns.  Each is an alternation of nouns whose last
\* letter, an "s", is optional: a noun is held without that "s".
stakeholder_patterns ==
    << <<"financial institution", "bank", "credit union">>,
       <<"agencie", "department", "bureau">>,
       <<"consumer", "individual", "citizen">>,
       <<"businesse", "companie", "corporation", "entitie">>,
       <<"provider", "service", "platform">>,
       <<"regulator", "supervisor", "authoritie">> >>

\* A pattern tried at position i of s: the first alternative that matches
\* there, with the "s" when it follows.  The value is group 1.
StakeholderAt(s, i, pattern) ==
    LET alts == {a \in 1..Len(pattern) : At(s, i, pattern[a])}
        noun == pattern[Min(alts)]
        e    == i + Len(noun)
    IN  IF alts = {} THEN [ok |-> FALSE, start |-> i, end |-> i, value |-> ""]
        ELSE IF At(s, e, "s")
        THEN [ok |-> TRUE, start |-> i, end |-> e + 1, value |-> noun \o "s"]
        ELSE [ok |-> TRUE, start |-> i, end |-> e, value |-> noun]

\* re.findall(pattern, s)
findall_stakeholders(s, pattern) ==
    NonOverlapping({StakeholderAt(s, i, pattern) :
                       i \in {j \in 1..Len(s) : StakeholderAt(s, j, pattern).ok}},
                   1)

\* The matches of a sentence, pattern after pattern, from pattern p on.
RECURSIVE SentenceMatches(_, _)
SentenceMatches(sentence_lower, p) ==
    IF p > Len(stakeholder_patterns) THEN <<>>
    ELSE findall_stakeholders(sentence_lower, stakeholder_patterns[p])
         \o SentenceMatches(sentence_lower, p + 1)

KeysOf(dict) == {dict[k].key : k \in 1..Len(dict)}

\* AppendResponsibility leaving out a sentence the list holds already.
AppendResponsibilityOnce(dict, stakeholder, sentence) ==
    IF stakeholder \notin KeysOf(dict)
    THEN Append(dict, [key |-> stakeholder, responsibilities |-> <<sentence>>])
    ELSE [k \in 1..Len(dict) |->
            IF dict[k].key = stakeholder
               /\ \A r \in 1..Len(dict[k].responsibilities) :
                     dict[k].responsibilities[r] # sentence
            THEN [dict[k] EXCEPT !.responsibilities = Append(@, sentence)]
            ELSE dict[k]]

\* Lines 275-278: the dictionary, held as the sequence of its items in
\* insertion order, after the sentence is appended to the list of the key.
AppendResponsibility(dict, stakeholder, sentence) ==
    IF stakeholder \notin KeysOf(dict)
    THEN Append(dict, [key |-> stakeholder, responsibilities |-> <<sentence>>])
    ELSE [k \in 1..Len(dict) |->
            IF dict[k].key = stakeholder
            THEN [dict[k] EXCEPT !.responsibilities = Append(@, sentence)]
            ELSE dict[k]]

\* The loop over the matches m, m + 1, ... of one sentence.
RECURSIVE RecordMatches(_, _, _, _)
RecordMatches(dict, matches, m, sentence) ==
    IF m > Len(matches) THEN dict
    ELSE RecordMatches(AppendResponsibility(dict, strip(matches[m]),
                                            strip(sentence)),
                       matches, m + 1, sentence)

\* The loop over the sentences k, k + 1, ...
RECURSIVE RecordSentences(_, _, _)
RecordSentences(dict, ss, k) ==
    IF k > Len(ss) THEN dict
    ELSE RecordSentences(
             RecordMatches(dict, SentenceMatches(lower(ss[k]), 1), 1, ss[k]),
             ss, k + 1)

\* The upper-case letter of every lower-case letter.
UpperOf == [c \in {Char(LowerLetters, i) : i \in 1..26} |->
               Char(UpperLetters, CHOOSE i \in 1..26 : Char(LowerLetters, i) = c)]

\* str.upper()
upper(s) ==
    IF s = "" THEN ""
    ELSE LET up == [i \in 1..Len(s) |->
                       IF Char(s, i) \in DOMAIN UpperOf THEN UpperOf[Char(s, i)]
                       ELSE Char(s, i)]
             join[i \in 0..Len(s)] == IF i = 0 THEN "" ELSE join[i - 1] \o up[i]
         IN  join[Len(s)]

\* The display cap and the character budget of a stakeholder's list.
ResponsibilityCap == 3
ResponsibilityBudget == 200

\* StakeholderLines listing every responsibility of a stakeholder.
RECURSIVE StakeholderLinesUncapped(_, _)
StakeholderLinesUncapped(dict, k) ==
    IF k > Len(dict) THEN <<>>
    ELSE <<Line("stakeholder", dict[k].key, 0, upper(dict[k].key))>>
         \o ItemLines(dict[k].key, dict[k].responsibilities,
                      Len(dict[k].responsibilities), ResponsibilityBudget)
         \o <<Blank(dict[k].key)>>
         \o StakeholderLinesUncapped(dict, k + 1)

\* The lines of the stakeholders k, k + 1, ... of the dictionary.
RECURSIVE StakeholderLines(_, _)
StakeholderLines(dict, k) ==
    IF k > Len(dict) THEN <<>>
    ELSE <<Line("stakeholder", dict[k].key, 0, upper(dict[k].key))>>
         \o ItemLines(dict[k].key, dict[k].responsibilities,
                      ResponsibilityCap, ResponsibilityBudget)
         \o <<Blank(dict[k].key)>>
         \o StakeholderLines(dict, k + 1)

format_stakeholders(dict) ==
    <<Line("title", "report", 0, "Stakeholder Responsibility Analysis"),
      Blank("report")>>
    \o StakeholderLines(dict, 1)

\* A document is a fragment repeated up to MaxStakeholderRepeat times and a
\* tail.
MaxStakeholderRepeat == 4

StakeholderFragments ==
    {"Banks lend to banks and bank agencies. ",
     "Consumers use services of banks. ",
     "Financial Institutions and credit unions report to regulators! ",
     "A bankrupt company pays authorities? ",
     "Providers run platforms for citizens. ",
     "Departments and bureaus supervise corporations; supervisors agree. ",
     "This is a notice. ",
     "Agencies must act ",
     LongSentence("Regulators and banks agree ", ResponsibilityBudget) \o ". ",
     LongSentence("Regulators and banks agree ", ResponsibilityBudget + 1)
         \o ". "}

StakeholderTails == {"", "Businesses and entities serve individuals. "}

StakeholderDocuments ==
    {Repeat(p, n) \o q :
        p \in StakeholderFragments, q \in StakeholderTails,
        n \in 0..MaxStakeholderRepeat}

InitStakeholders ==
    /\ \/ text_type = "str" /\ document_text \in StakeholderDocuments
       \/ text_type \in TextTypes \ {"str"} /\ document_text = ""
    /\ document_title = ""
    /\ pc = "ready"
    /\ sentences = <<>> /\ analysis = EmptyAnalysis("", 0)
    /\ output = <<>> /\ previous = <<>>
    /\ NoCalls /\ NoComparison /\ NoStakeholders /\ NoNavigator

\* As in analyze_compliance_requirements, re.split raises TypeError on a
\* value that is not a string.
extract_stakeholders ==
    /\ pc = "ready"
    /\ \/ /\ text_type = "str"
          /\ sentences' = split_into_sentences(document_text)
          /\ stakeholders' = RecordSentences(<<>>, sentences', 1)
          /\ stakeholder_report' = format_stakeholders(stakeholders')
          /\ pc' = "returned"
       \/ /\ text_type # "str"
          /\ pc' = "raised"
          /\ UNCHANGED <<sentences, stakeholderVars>>
    /\ UNCHANGED <<document_text, document_title, text_type, analysis,
                   output, previous, calls, compareVars,
                   toolVars, agentVars>>

NextStakeholders == extract_stakeholders

SpecStakeholders == InitStakeholders /\ [][NextStakeholders]_vars

-----------------------------------------------------------------------------
(* Properties of the stakeholder extraction.                               *)

\* The list kept under a key, empty when the key is absent.
ResponsibilitiesOf(dict, key) ==
    LET items == SelectSeq(dict, LAMBDA item : item.key = key)
    IN  IF items = <<>> THEN <<>> ELSE items[1].responsibilities

\* The category keys: every noun of the six patterns, with and without its
\* optional "s".
AllCategoryKeys ==
    UNION {{stakeholder_patterns[p][a], stakeholder_patterns[p][a] \o "s"} :
              <<p, a>> \in {<<q, b>> \in (1..Len(stakeholder_patterns)) \X (1..4) :
                               b <= Len(stakeholder_patterns[q])}}

\* The number of places of a sentence where exactly the phrase of a key is
\* matched: the phrase stands there and, when it is the form without the
\* "s", no "s" follows.
Occurrences(key, sentence) ==
    LET l == lower(sentence)
        plural == \E q \in 1..Len(stakeholder_patterns) : \E b \in 1..Len(stakeholder_patterns[q]) :
                      key = stakeholder_patterns[q][b] \o "s"
    IN  Cardinality({i \in 1..Len(l) :
                        At(l, i, key) /\ (plural \/ ~At(l, i + Len(key), "s"))})

\* The sentences k, k + 1, ..., each as many times as the key is matched in
\* it.
RECURSIVE OncePerMatch(_, _, _)
OncePerMatch(key, ss, k) ==
    IF k > Len(ss) THEN <<>>
    ELSE Copies(Occurrences(key, ss[k]), ss[k], 0, "")
         \o OncePerMatch(key, ss, k + 1)

\* The sentences k, k + 1, ... that match the key, each once.
RECURSIVE OncePerSentence(_, _, _)
OncePerSentence(key, ss, k) ==
    IF k > Len(ss) THEN <<>>
    ELSE (IF Occurrences(key, ss[k]) > 0 THEN <<ss[k]>> ELSE <<>>)
         \o OncePerSentence(key, ss, k + 1)

StakeholdersReturned == Returned /\ stakeholder_report # <<>>

\* C20 as stated: the list of a category key holds every sentence that
\* matches the key once, whatever other keys the sentence matches.
C20_ListedOncePerKey ==
    StakeholdersReturned =>
        \A key \in AllCategoryKeys :
            ResponsibilitiesOf(stakeholders, key)
                = OncePerSentence(key, sentences, 1)

\* C20: a sentence is listed under every category key it matches, once for
\* each place the key's phrase is matched in it (once when the phrase occurs
\* once); the keys are the exact matched phrases, each key kept once, and a
\* sentence listed under one key is listed under the others it matches too.
C20_ListedOncePerMatch ==
    StakeholdersReturned =>
        /\ \A key \in AllCategoryKeys :
             ResponsibilitiesOf(stakeholders, key)
                 = OncePerMatch(key, sentences, 1)
        /\ KeysOf(stakeholders) \subseteq AllCategoryKeys
        /\ Cardinality(KeysOf(stakeholders)) = Len(stakeholders)
        /\ \A k \in 1..Len(stakeholders) :
             stakeholders[k].responsibilities # <<>>

\* A sentence that names banks twice, a bank and agencies is listed twice
\* under "banks" and once under "bank" and under "agencies".
C20_Witness ==
    /\ StakeholdersReturned
    /\ document_text = "Banks lend to banks and bank agencies. "
    /\ ResponsibilitiesOf(stakeholders, "banks")
         = <<"Banks lend to banks and bank agencies",
             "Banks lend to banks and bank agencies">>
    /\ ResponsibilitiesOf(stakeholders, "bank")
         = <<"Banks lend to banks and bank agencies">>
    /\ ResponsibilitiesOf(stakeholders, "agencies")
         = <<"Banks lend to banks and bank agencies">>

-----------------------------------------------------------------------------
(* Deadlines, one per sentence.                                            *)

HasDeadlinePhrase(s) == DeadlinePhrases(s) # {}

\* C30: every sentence gives one deadline at most, that of its first
\* "within <N> <unit>" phrase: the deadlines are, in sentence order, the
\* first deadlines of the sentences that hold such a phrase, so they are no
\* more than the sentences and a second phrase of a sentence is not recorded.
C30_OneDeadlinePerSentence ==
    Returned =>
        LET dated == SelectSeq(sentences, HasDeadlinePhrase)
        IN  /\ Len(analysis.deadlines) = Len(dated)
            /\ \A k \in 1..Len(dated) :
                 analysis.deadlines[k]
                     = DeadlineOf(dated[k], Min(DeadlinePhrases(dated[k])))
            /\ Len(analysis.deadlines) <= Len(sentences)

\* Two sentences with two deadline phrases each and a third with one have
\* been analysed: three deadlines, "3 years" not among them.
C30_Witness ==
    /\ Returned
    /\ document_text =
         Repeat("Agencies SHALL pay a penalty WITHIN 10 days or within 3 years. ", 2)
         \o "Companies must comply within 30 days. "
    /\ [k \in 1..Len(analysis.deadlines) |-> analysis.deadlines[k].duration]
         = <<"10 days", "10 days", "30 days">>

-----------------------------------------------------------------------------
(* Substring triggers in priority order.                                   *)

\* Whether one of the phrases stands somewhere in the lower-cased sentence.
Occurs(s, phrases) ==
    \E k \in phrases : \E i \in 1..Len(s) : At(lower(s), i, k)

MandatoryTriggers == Range(compliance_keywords.mandatory)

OptionalTriggers == Range(compliance_keywords.optional)

\* C28: a sentence is in prohibited_actions only if it holds "prohibited",
\* "forbidden" or "banned" and no mandatory and no optional trigger as a
\* substring; a sentence with "shall not" or "must not" is recorded as
\* mandatory, and one whose cue is "cannot", with no mandatory trigger, as
\* optional.
C28_ProhibitedOnlyByLiveTriggers ==
    Returned =>
        /\ \A s \in Range(analysis.prohibited_actions) :
             /\ Occurs(s, {"prohibited", "forbidden", "banned"})
             /\ ~Occurs(s, MandatoryTriggers)
             /\ ~Occurs(s, OptionalTriggers)
        /\ \A s \in Range(sentences) :
             /\ Occurs(s, {"shall not", "must not"})
                => /\ s \in Range(analysis.mandatory_requirements)
                   /\ s \notin Range(analysis.prohibited_actions)
             /\ Occurs(s, {"cannot"}) /\ ~Occurs(s, MandatoryTriggers)
                => /\ s \in Range(analysis.optional_provisions)
                   /\ s \notin Range(analysis.prohibited_actions)

\* A document with a "shall not" sentence, a "must not" sentence and a
\* "cannot" sentence has been analysed: two mandatory requirements, one
\* optional provision and no prohibited action.
C28_Witness ==
    /\ Returned
    /\ document_text = "Agents shall not pay. Vendors must not lie. "
                         \o "Staff cannot leave. "
    /\ analysis.mandatory_requirements
         = <<"Agents shall not pay", "Vendors must not lie">>
    /\ analysis.optional_provisions = <<"Staff cannot leave">>
    /\ analysis.prohibited_actions = <<>>

-----------------------------------------------------------------------------
(* Sentences about as long as the character budgets of the report.         *)

\* The sentences differ from a budget by -1 up to MaxOver characters.
MaxOver == 1

LongLengths ==
    {budget + over - 1 :
        budget \in {DeadlineBudget, SentenceBudget}, over \in 0..(MaxOver + 1)}

\* The start of a mandatory sentence with a deadline and a penalty, of a
\* prohibited one and of an optional one.
LongStarts ==
    {"Companies must comply within 30 days or pay a fine ",
     "Gifts are banned ",
     "Fees may rise "}

LongDocuments ==
    {LongSentence(start, n) \o ". " : start \in LongStarts, n \in LongLengths}

InitLong ==
    /\ \/ text_type = "str" /\ document_text \in LongDocuments
       \/ text_type \in TextTypes \ {"str"} /\ document_text = ""
    /\ document_title \in Titles
    /\ pc = "ready"
    /\ sentences = <<>>
    /\ analysis = EmptyAnalysis("", 0)
    /\ output = <<>>
    /\ previous = <<>>
    /\ NoCalls /\ NoComparison /\ NoStakeholders /\ NoNavigator

SpecLong == InitLong /\ [][Next]_vars

\* The first n characters of a text, all of it when it is no longer, and the
\* marker when it is longer.
CutTo(s, n) ==
    IF Len(s) > n THEN SubSeq(s, 1, n) \o "..." ELSE s

\* C26: every item a list section displays is the first 200 characters of
\* its sentence (the first 150 of the sentence of a deadline, after the
\* duration), followed by "..." exactly when the sentence is longer than
\* that; a sentence of exactly that length is shown whole, with no marker.
C26_ItemsCutToBudget ==
    Returned =>
        \A section \in ListSections : \A i \in LinesOf("item", section) :
            LET item == analysis[section][output[i].num]
            IN  IF section = "deadlines"
                THEN output[i].text
                       = item.duration \o " - " \o CutTo(item.text, 150)
                ELSE output[i].text = CutTo(item, 200)

\* A sentence of exactly 200 characters has been reported: whole as a
\* mandatory requirement and as a penalty, cut to 150 characters and marked
\* as a deadline.
C26_Witness ==
    /\ Returned
    /\ Len(sentences) = 1 /\ Len(sentences[1]) = 200
    /\ \E i \in LinesOf("item", "mandatory_requirements") :
         output[i].text = sentences[1]
    /\ \E i \in LinesOf("item", "penalties") : output[i].text = sentences[1]
    /\ \E i \in LinesOf("item", "deadlines") :
         Len(output[i].text) = Len("30 days - ") + 150 + 3

-----------------------------------------------------------------------------
(* The stakeholder report.                                                 *)

\* Where a key is first seen: the first sentence it is matched in, the
\* pattern it belongs to and the first place of that sentence it is matched
\* at.  The extractor goes sentence by sentence, pattern by pattern and
\* match by match.
PatternOf(key) ==
    CHOOSE q \in 1..Len(stakeholder_patterns) :
        \E b \in 1..Len(stakeholder_patterns[q]) :
            key \in {stakeholder_patterns[q][b], stakeholder_patterns[q][b] \o "s"}

FirstSentenceOf(key) ==
    Min({k \in 1..Len(sentences) : Occurrences(key, sentences[k]) > 0})

FirstPlaceOf(key) ==
    LET l == lower(sentences[FirstSentenceOf(key)])
        plural == key # stakeholder_patterns[PatternOf(key)][
                          CHOOSE b \in 1..Len(stakeholder_patterns[PatternOf(key)]) :
                              key \in {stakeholder_patterns[PatternOf(key)][b],
                                       stakeholder_patterns[PatternOf(key)][b] \o "s"}]
    IN  Min({i \in 1..Len(l) :
                At(l, i, key) /\ (plural \/ ~At(l, i + Len(key), "s"))})

SeenBefore(key1, key2) ==
    \/ FirstSentenceOf(key1) < FirstSentenceOf(key2)
    \/ /\ FirstSentenceOf(key1) = FirstSentenceOf(key2)
       /\ \/ PatternOf(key1) < PatternOf(key2)
          \/ /\ PatternOf(key1) = PatternOf(key2)
             /\ FirstPlaceOf(key1) < FirstPlaceOf(key2)

StakeholderLinesOf(kind, key) ==
    {i \in 1..Len(stakeholder_report) :
        stakeholder_report[i].kind = kind
        /\ stakeholder_report[i].section = key}

\* C21: the stakeholder report shows, for every category, its first 3
\* sentences at most, numbered, each cut to its first 200 characters (and
\* marked when it is longer), and the categories come in the order they are
\* first seen in.
C21_StakeholderReport ==
    StakeholdersReturned =>
        /\ \A key \in KeysOf(stakeholders) :
             LET listed == ResponsibilitiesOf(stakeholders, key)
                 items == StakeholderLinesOf("item", key)
             IN  /\ Cardinality(StakeholderLinesOf("stakeholder", key)) = 1
                 /\ Cardinality(items) = IF Len(listed) < 3 THEN Len(listed) ELSE 3
                 /\ {stakeholder_report[i].num : i \in items}
                      = 1..Cardinality(items)
                 /\ \A i \in items :
                      stakeholder_report[i].text
                          = CutTo(listed[stakeholder_report[i].num], 200)
        /\ \A i, j \in 1..Len(stakeholder_report) :
             /\ stakeholder_report[i].kind = "stakeholder"
             /\ stakeholder_report[j].kind = "stakeholder"
             /\ i < j
             => SeenBefore(stakeholder_report[i].section,
                           stakeholder_report[j].section)
        /\ \A i \in 1..Len(stakeholder_report) :
             stakeholder_report[i].kind \in {"stakeholder", "item"}
             => stakeholder_report[i].section \in KeysOf(stakeholders)

\* A document with four sentences of 201 characters on regulators and banks
\* and a sentence on businesses has been reported: three items under each of
\* the first two keys, cut and marked, and the keys in the order seen.
C21_Witness ==
    /\ StakeholdersReturned
    /\ [k \in 1..Len(stakeholders) |-> stakeholders[k].key]
         = <<"banks", "regulators", "individuals", "businesses", "entities">>
    /\ Len(ResponsibilitiesOf(stakeholders, "banks")) = 4
    /\ Cardinality(StakeholderLinesOf("item", "banks")) = 3
    /\ \A i \in StakeholderLinesOf("item", "regulators") :
         Len(stakeholder_report[i].text) = 203

-----------------------------------------------------------------------------
(* The Federal Register tool (tools/federal_register_api.py).              *)

\* str(n) of a natural number.
RECURSIVE Decimal(_)
Decimal(n) ==
    IF n < 10 THEN Char("0123456789", n + 1)
    ELSE Decimal(n \div 10) \o Char("0123456789", (n % 10) + 1)

\* d.get(key, default) of a dictionary.
Get(d, key, default) == IF key \in DOMAIN d THEN d[key] ELSE default

\* ''.join(filter(test, s)) for the test of a class of characters, computed
\* by halves.
RECURSIVE FilterChars(_, _)
FilterChars(s, class) ==
    IF Len(s) = 0 THEN ""
    ELSE IF Len(s) = 1 THEN (IF s \in class THEN s ELSE "")
    ELSE LET h == Len(s) \div 2
         IN  FilterChars(SubSeq(s, 1, h), class)
                 \o FilterChars(SubSeq(s, h + 1, Len(s)), class)

\* datetime.now().strftime('%B %d, %Y') of the clock value now, read as a
\* day of November 2026.
strftime(now) == "November 0" \o Decimal(now) \o ", 2026"

\* What session.get, raise_for_status and response.json() of a request meet
\* with: a requests.RequestException with its message, or the decoded body
\* of the response.
RequestRaised(message) == [raised |-> TRUE, error |-> message]

RequestAnswered(data) == [raised |-> FALSE, data |-> data]

\* FederalRegisterAPI.search_documents
FederalRegisterAPI_search_documents(query, outcome) ==
    IF outcome.raised
    THEN [success |-> FALSE, error |-> outcome.error, query |-> query,
          results |-> <<>>]
    ELSE [success |-> TRUE, query |-> query,
          total_results |-> Get(outcome.data, "count", 0),
          results |-> Get(outcome.data, "results", <<>>)]

\* Lines 125-133: the first document that names the order in its number or
\* in its title, the first document when none does.
RelevantDocument(results, eo_number) ==
    LET named == {i \in 1..Len(results) :
                    \/ Contains(Get(results[i], "executive_order_number", ""),
                                eo_number)
                    \/ Contains(Get(results[i], "title", ""), eo_number)}
    IN  IF named # {} THEN results[Min(named)] ELSE results[1]

\* Lines 152-174: the status report of an order that was found.
StatusInfo(eo_number, relevant_doc, amendments_search, repeals_search, now) ==
    "\n**Executive Order " \o eo_number \o " Status Report**\n\n"
    \o "**Title:** " \o Get(relevant_doc, "title", "Unknown Title") \o "\n"
    \o "**Publication Date:** "
    \o Get(relevant_doc, "publication_date", "Unknown Date") \o "\n"
    \o "**Document Number:** "
    \o Get(relevant_doc, "document_number", "Unknown") \o "\n"
    \o "**Status:** Active (as of " \o strftime(now) \o ")\n\n"
    \o "**Details:**\n"
    \o "- No repeals found in Federal Register\n"
    \o "- Document is still in effect\n        "
    \o (IF amendments_search.success /\ Len(amendments_search.results) > 0
        THEN "\n- Found " \o Decimal(Len(amendments_search.results))
                 \o " potential amendments"
        ELSE "")
    \o (IF repeals_search.success /\ Len(repeals_search.results) > 0
        THEN "\n- Found " \o Decimal(Len(repeals_search.results))
                 \o " documents mentioning repeal"
        ELSE "")
    \o (IF Get(relevant_doc, "html_url", "") # ""
        THEN "\n\n**Full Document:** " \o Get(relevant_doc, "html_url", "")
        ELSE "")

\* The order reported under the title of the first document found, whether
\* or not a document names the order.
check_executive_order_status_first_document(eo_number, outcomes, now) ==
    LET results == FederalRegisterAPI_search_documents(
                       "Executive Order " \o eo_number, outcomes[1])
    IN  IF ~results.success
        THEN "Error checking Executive Order " \o eo_number \o ": "
                 \o Get(results, "error", "Unknown error")
        ELSE IF Len(results.results) = 0
        THEN "Executive Order " \o eo_number \o " not found in Federal Register."
        ELSE "\n**" \o Get(results.results[1], "title", "Unknown Title")
                 \o " Status Report**\n"

\* FederalRegisterAPI.check_executive_order_status: outcomes are what the
\* search for the order and, when it is found, the searches for its
\* amendments and repeals meet with.
check_executive_order_status(eo_number, outcomes, now) ==
    LET results == FederalRegisterAPI_search_documents(
                       "Executive Order " \o eo_number, outcomes[1])
    IN  IF ~results.success
        THEN "Error checking Executive Order " \o eo_number \o ": "
                 \o Get(results, "error", "Unknown error")
        ELSE IF Len(results.results) = 0
        THEN "Executive Order " \o eo_number \o " not found in Federal Register."
        ELSE StatusInfo(eo_number,
                 RelevantDocument(results.results, eo_number),
                 FederalRegisterAPI_search_documents(
                     "amend Executive Order " \o eo_number, outcomes[2]),
                 FederalRegisterAPI_search_documents(
                     "repeal Executive Order " \o eo_number, outcomes[3]),
                 now)

\* Lines 255-263: the entries of the documents from the i-th on.
RECURSIVE PolicyStatusEntries(_, _)
PolicyStatusEntries(results, i) ==
    IF i > Len(results) THEN ""
    ELSE Decimal(i) \o ". **" \o Get(results[i], "title", "Unknown Title")
             \o "**\n"
         \o "   Type: " \o Get(results[i], "type", "Unknown") \o "\n"
         \o "   Publication Date: "
         \o Get(results[i], "publication_date", "Unknown") \o "\n"
         \o "   Status: Active\n"
         \o "   Document Number: "
         \o Get(results[i], "document_number", "Unknown") \o "\n"
         \o (IF Len(Get(results[i], "agencies", <<>>)) > 0
             THEN "   Agencies: " \o Join(results[i].agencies) \o "\n"
             ELSE "")
         \o "\n"
         \o PolicyStatusEntries(results, i + 1)

\* Lines 245-265: the general search.
GeneralSearch(policy_identifier, outcome) ==
    LET results == FederalRegisterAPI_search_documents(policy_identifier,
                                                       outcome)
    IN  IF ~results.success
        THEN "Error checking policy status: "
                 \o Get(results, "error", "Unknown error")
        ELSE IF Len(results.results) = 0
        THEN "No documents found for: " \o policy_identifier
        ELSE "**Policy Status for '" \o policy_identifier \o "':**\n\n"
                 \o PolicyStatusEntries(results.results, 1)

\* Line 238: whether the identifier reads as an executive order.
NamesExecutiveOrder(policy_identifier) ==
    \/ Contains(lower(policy_identifier), "executive order")
    \/ Prefix(policy_identifier, 2) = "EO"

\* FederalRegisterTool.check_policy_status
check_policy_status(policy_identifier, outcomes, now) ==
    LET number == FilterChars(policy_identifier, DigitChars)
    IN  IF NamesExecutiveOrder(policy_identifier) /\ number # ""
        THEN check_executive_order_status(number, outcomes, now)
        ELSE GeneralSearch(policy_identifier, outcomes[1])

\* The number of requests check_policy_status makes.
StatusRequests(policy_identifier, first) ==
    IF /\ NamesExecutiveOrder(policy_identifier)
       /\ FilterChars(policy_identifier, DigitChars) # ""
       /\ ~first.raised
       /\ Len(Get(first.data, "results", <<>>)) > 0
    THEN 3 ELSE 1

\* Documents of the Federal Register as the API describes them.
FederalRegisterDocuments ==
    <<[title |-> "Ensuring Responsible Development of Digital Assets",
       type |-> "Presidential Document",
       publication_date |-> "2022-03-14",
       document_number |-> "2022-05471",
       html_url |-> "https://www.federalregister.gov/d/2022-05471",
       agencies |-> <<"Executive Office of the President", "Treasury">>],
      [title |-> "Executive Order 14067 of March 9, 2022"],
      [document_number |-> "2021-01753", executive_order_number |-> "13985",
       agencies |-> <<>>]>>

\* What a request to the Federal Register meets with.
FederalRegisterOutcomes ==
    {RequestRaised("Connection refused"),
     RequestRaised("500 Server Error: Internal Server Error"),
     RequestAnswered([count |-> 0, results |-> <<>>]),
     RequestAnswered([description |-> "No documents"]),
     RequestAnswered([count |-> 1,
                      results |-> SubSeq(FederalRegisterDocuments, 1, 1)]),
     RequestAnswered([count |-> 3, results |-> FederalRegisterDocuments])}

\* What the searches for amendments and repeals are taken to meet with.
FollowUpOutcomes ==
    {RequestRaised("Connection refused"),
     RequestAnswered([count |-> 0, results |-> <<>>]),
     RequestAnswered([count |-> 3, results |-> FederalRegisterDocuments])}

PolicyIdentifiers ==
    {"Executive Order 14067", "executive order 13985 of 2021", "EO 14067",
     "EO", "eo 14067", "Executive Order", "Clean Air Act"}

\* What the requests of one call of check_policy_status meet with.
StatusOutcomes(policy_identifier) ==
    {<<first>> : first \in {o \in FederalRegisterOutcomes :
                               StatusRequests(policy_identifier, o) = 1}}
    \cup {<<first, second, third>> :
            first \in {o \in FederalRegisterOutcomes :
                          StatusRequests(policy_identifier, o) = 3},
            second \in FollowUpOutcomes, third \in FollowUpOutcomes}

-----------------------------------------------------------------------------
(* The CourtListener tool (tools/courtlistener_api.py).                    *)

\* What session.get meets with: a response with its status code, its text
\* and its decoded body.
Response(status_code, text, data) ==
    [raised |-> FALSE, status_code |-> status_code, text |-> text,
     data |-> data]

\* CourtListenerAPI.search_opinions
search_opinions(query, outcome) ==
    IF outcome.raised
    THEN [success |-> FALSE, error |-> outcome.error, query |-> query,
          results |-> <<>>]
    ELSE IF outcome.status_code = 429
    THEN [success |-> FALSE,
          error |-> "Rate limited. Please try again later.",
          query |-> query, results |-> <<>>]
    ELSE IF outcome.status_code = 401
    THEN [success |-> FALSE,
          error |-> "Authentication required for CourtListener API.",
          query |-> query, results |-> <<>>]
    ELSE IF outcome.status_code = 200
    THEN [success |-> TRUE, query |-> query,
          total_results |-> Get(outcome.data, "count", 0),
          results |-> Get(outcome.data, "results", <<>>)]
    ELSE [success |-> FALSE,
          error |-> "HTTP " \o Decimal(outcome.status_code) \o ": "
                        \o outcome.text,
          query |-> query, results |-> <<>>]

\* CourtListenerTool.__init__: the cases of the demonstration, topic by
\* topic.
mock_cases ==
    <<
     [topic |-> "section 230",
      cases |->
        <<
          [case_name |->
                  "Fair Housing Council v. Roommates.com",
           court |->
                  "9th Circuit Court of Appeals",
           date_filed |->
                  "2008-04-03",
           citation |->
                  "521 F.3d 1157",
           summary |->
                  "Court ruled that Section 230 immunity does not "
                  \o "protect websites that require users to answer "
                  \o "discriminatory questions, as this constitutes "
                  \o "development of unlawful content rather than passive "
                  \o "hosting.",
           outcome |->
                  "Plaintiff won - Section 230 immunity limited",
           key_holdings |->
                  <<"Section 230 does not protect active development of "
                      \o "illegal content",
                    "Requiring discriminatory questionnaires exceeds "
                      \o "passive hosting",
                    "Websites can lose immunity through content "
                      \o "development activities">>],
          [case_name |->
                  "Zeran v. America Online",
           court |->
                  "4th Circuit Court of Appeals",
           date_filed |->
                  "1997-11-12",
           citation |->
                  "129 F.3d 327",
           summary |->
                  "Landmark case establishing broad interpretation of "
                  \o "Section 230 immunity for ISPs. Court held that AOL "
                  \o "could not be held liable for defamatory third-party "
                  \o "content even after being notified.",
           outcome |->
                  "Defendant won - Broad Section 230 immunity",
           key_holdings |->
                  <<"Section 230 provides broad immunity for ISPs",
                    "No duty to remove content after notification",
                    "Publisher liability distinction eliminated for "
                      \o "interactive services">>]
        >>],
     [topic |-> "digital assets",
      cases |->
        <<
          [case_name |->
                  "SEC v. Ripple Labs",
           court |->
                  "Southern District of New York",
           date_filed |->
                  "2020-12-22",
           citation |->
                  "Ongoing litigation",
           summary |->
                  "SEC alleges that Ripple's XRP token sales "
                  \o "constituted unregistered securities offerings. Case "
                  \o "has significant implications for cryptocurrency "
                  \o "regulation.",
           outcome |->
                  "Ongoing - Mixed rulings on different aspects",
           key_holdings |->
                  <<"Institutional sales of XRP may constitute securities",
                    "Programmatic sales to retail investors may not be "
                      \o "securities",
                    "Fair notice defense partially successful">>]
        >>]
    >>

SnippetBudget == 300

\* Lines 205-220: the entries of the cases from the i-th on.
RECURSIVE ApiCaseEntries(_, _)
ApiCaseEntries(results, i) ==
    IF i > Len(results) THEN ""
    ELSE Decimal(i) \o ". **" \o Get(results[i], "caseName", "Unknown Case")
             \o "**\n"
         \o "   Court: " \o Get(results[i], "court", "Unknown Court") \o "\n"
         \o "   Date Filed: "
         \o Get(results[i], "dateFiled", "Unknown Date") \o "\n"
         \o "   Citation: "
         \o Get(results[i], "citation", "No citation available") \o "\n"
         \o (IF Get(results[i], "snippet", "") # ""
             THEN "   Summary: " \o Shown(results[i].snippet, SnippetBudget)
                      \o "\n"
             ELSE "")
         \o "\n"
         \o ApiCaseEntries(results, i + 1)

\* CourtListenerTool._format_api_results
format_api_results(query, results) ==
    IF Len(results) = 0
    THEN "No case law found for '" \o query
             \o "' in CourtListener database."
    ELSE "**Case Law Search Results for '" \o query \o "':**\n\n"
         \o "Found " \o Decimal(Len(results)) \o " relevant cases:\n\n"
         \o ApiCaseEntries(results, 1)

\* str.split(): the words of s from position i on.
RECURSIVE SplitFrom(_, _)
SplitFrom(s, i) ==
    LET a == RunEnd(s, i, SpaceChars)
        b == FirstOf(s, a, SpaceChars)
    IN  IF a > Len(s) THEN <<>>
        ELSE <<SubSeq(s, a, b - 1)>> \o SplitFrom(s, b)

\* Line 231: whether the query is about a topic of the demonstration.
IsRelevantTopic(topic, query_lower) ==
    \/ Contains(query_lower, topic)
    \/ ContainsAny(query_lower, SplitFrom(topic, 1))

\* Lines 230-232: the cases of the topics from the t-th on the query is
\* about.
RECURSIVE RelevantCases(_, _)
RelevantCases(query_lower, t) ==
    IF t > Len(mock_cases) THEN <<>>
    ELSE (IF IsRelevantTopic(mock_cases[t].topic, query_lower)
          THEN mock_cases[t].cases ELSE <<>>)
         \o RelevantCases(query_lower, t + 1)

\* The bullet of an entry (U+2022), written as the ASCII character the
\* module can hold.
Bullet == "*"

RECURSIVE HoldingLines(_, _)
HoldingLines(key_holdings, h) ==
    IF h > Len(key_holdings) THEN ""
    ELSE "   " \o Bullet \o " " \o key_holdings[h] \o "\n"
         \o HoldingLines(key_holdings, h + 1)

\* Lines 246-259: the entries of the cases from the i-th on.
RECURSIVE MockCaseEntries(_, _)
MockCaseEntries(cases, i) ==
    IF i > Len(cases) THEN ""
    ELSE Decimal(i) \o ". **" \o cases[i].case_name \o "**\n"
         \o "   Court: " \o cases[i].court \o "\n"
         \o "   Date Filed: " \o cases[i].date_filed \o "\n"
         \o "   Citation: " \o cases[i].citation \o "\n"
         \o "   Outcome: " \o cases[i].outcome \o "\n\n"
         \o "   **Summary:** " \o cases[i].summary \o "\n\n"
         \o (IF Len(Get(cases[i], "key_holdings", <<>>)) > 0
             THEN "   **Key Holdings:**\n"
                  \o HoldingLines(cases[i].key_holdings, 1) \o "\n"
             ELSE "")
         \o MockCaseEntries(cases, i + 1)

\* CourtListenerTool._format_mock_results
format_mock_results(query) ==
    LET relevant_cases == RelevantCases(lower(query), 1)
    IN  IF Len(relevant_cases) = 0
        THEN "**Case Law Search for '" \o query \o "':**\n\n"
             \o "No specific case law found in our demonstration database "
             \o "for this query. \n\n"
             \o "Note: This is a demo version with limited case law data. "
             \o "In a production environment, this would search the full "
             \o "CourtListener database with comprehensive legal opinions "
             \o "and court rulings.\n\n"
             \o "Available demo topics include: Section 230, digital "
             \o "assets/cryptocurrency."
        ELSE "**Case Law Analysis for '" \o query \o "':**\n\n"
             \o "Found " \o Decimal(Len(relevant_cases))
             \o " relevant case(s):\n\n"
             \o MockCaseEntries(relevant_cases, 1)
             \o "---\n"
             \o "*Note: This demo includes selected landmark cases. "
             \o "Production version would provide comprehensive case law "
             \o "search.*"

\* The search answering with what the API said when it gave no usable
\* result.
search_case_law_reporting_api(regulation_or_topic, outcome) ==
    LET api_results == search_opinions(regulation_or_topic, outcome)
    IN  IF api_results.success
        THEN format_api_results(regulation_or_topic, api_results.results)
        ELSE "Error: " \o api_results.error

\* CourtListenerTool.search_case_law
search_case_law(regulation_or_topic, outcome) ==
    LET api_results == search_opinions(regulation_or_topic, outcome)
    IN  IF api_results.success /\ Len(api_results.results) > 0
        THEN format_api_results(regulation_or_topic, api_results.results)
        ELSE format_mock_results(regulation_or_topic)

\* Opinions as the API describes them; the second one has a snippet of more
\* than 300 characters.
CourtListenerOpinions ==
    <<[caseName |-> "Gonzalez v. Google LLC", court |-> "scotus",
       dateFiled |-> "2023-05-18", citation |-> "598 U.S. 617",
       snippet |-> "Section 230 was not reached."],
      [caseName |-> "Doe v. Platform",
       snippet |-> LongSentence("The panel held ", SnippetBudget + 1)],
      [court |-> "ca9", snippet |-> ""]>>

\* What the request to CourtListener meets with.
CourtListenerOutcomes ==
    {RequestRaised("Connection refused"),
     Response(429, "Too Many Requests", [detail |-> "throttled"]),
     Response(401, "Unauthorized", [detail |-> "no token"]),
     Response(500, "Server Error", [detail |-> "error"]),
     Response(200, "", [count |-> 0, results |-> <<>>]),
     Response(200, "", [detail |-> "no results"]),
     Response(200, "", [count |-> 1,
                        results |-> SubSeq(CourtListenerOpinions, 1, 1)]),
     Response(200, "", [count |-> 3, results |-> CourtListenerOpinions])}

Topics ==
    {"Section 230", "digital assets", "Section 230 and digital assets",
     "Digital privacy", "section", "GDPR", ""}

\* A caller calls CourtListenerTool.search_case_law.
call_search_case_law ==
    /\ \E regulation_or_topic \in Topics :
       \E outcome \in CourtListenerOutcomes :
           /\ tool_called' = "search_case_law"
           /\ tool_argument' = regulation_or_topic
           /\ tool_outcome' = <<outcome>>
           /\ tool_results' = <<>>
           /\ tool_returned' = search_case_law(regulation_or_topic, outcome)
    /\ UNCHANGED <<agentVars, document_text, document_title, text_type, pc,
                   sentences, analysis, output, previous, calls, compareVars,
                   stakeholderVars>>

-----------------------------------------------------------------------------
(* The vector store and its search tool (src/vector_store.py).  A distance *)
(* and a relevance score are held in thousandths.                          *)

\* f"{score:.3f}" of a score of so many thousandths.
Format3f(thousandths) ==
    LET a == IF thousandths < 0 THEN 0 - thousandths ELSE thousandths
        f == a % 1000
    IN  (IF thousandths < 0 THEN "-" ELSE "")
        \o Decimal(a \div 1000) \o "."
        \o (IF f < 10 THEN "00" ELSE IF f < 100 THEN "0" ELSE "")
        \o Decimal(f)

\* Lines 131-139: the results of the first query from the i-th on.
RECURSIVE FormattedResults(_, _)
FormattedResults(results, i) ==
    IF i > Len(results.ids[1]) THEN <<>>
    ELSE <<[id |-> results.ids[1][i],
            document |-> results.documents[1][i],
            metadata |-> results.metadatas[1][i],
            distance |-> results.distances[1][i],
            relevance_score |-> 1000 - results.distances[1][i]]>>
         \o FormattedResults(results, i + 1)

\* The search returning no results and no message when the embedding model
\* or the collection raises.
VectorStoreManager_search_documents_without_error(query, n_results, outcome) ==
    [query |-> query,
     results |-> IF ~outcome.raised /\ Len(outcome.data.ids) > 0
                 THEN FormattedResults(outcome.data, 1) ELSE <<>>]

\* VectorStoreManager.search_documents: outcome is what embedding the query
\* and querying the collection meet with, an exception with its message or
\* the result of the collection.
VectorStoreManager_search_documents(query, n_results, outcome) ==
    IF outcome.raised
    THEN [query |-> query, results |-> <<>>, error |-> outcome.error]
    ELSE [query |-> query,
          results |-> IF Len(outcome.data.ids) > 0
                      THEN FormattedResults(outcome.data, 1) ELSE <<>>]

DocumentBudget == 300

\* Lines 190-207: the entries of the results from the i-th on.
RECURSIVE DocumentEntries(_, _)
DocumentEntries(results, i) ==
    IF i > Len(results) THEN ""
    ELSE LET metadata == results[i].metadata
         IN  Decimal(i) \o ". **" \o Get(metadata, "title", "Unknown Title")
                 \o "**\n"
             \o "   Document ID: " \o results[i].id \o "\n"
             \o "   Relevance Score: "
             \o Format3f(results[i].relevance_score) \o "\n"
             \o "   Source: " \o Get(metadata, "source", "Unknown") \o "\n"
             \o (IF "type" \in DOMAIN metadata
                 THEN "   Type: " \o metadata.type \o "\n" ELSE "")
             \o (IF "agency" \in DOMAIN metadata
                 THEN "   Agency: " \o metadata.agency \o "\n" ELSE "")
             \o (IF "date" \in DOMAIN metadata
                 THEN "   Date: " \o metadata.date \o "\n" ELSE "")
             \o "   Content: " \o Shown(results[i].document, DocumentBudget)
             \o "\n\n"
             \o DocumentEntries(results, i + 1)

\* VectorSearchTool.search_policy_documents, from the dictionary
\* search_documents returned.
search_policy_documents(query, results) ==
    IF Len(results.results) = 0
    THEN "No relevant policy documents found for query: '" \o query \o "'"
    ELSE "Found " \o Decimal(Len(results.results))
             \o " relevant policy documents for '" \o query \o "':\n\n"
             \o DocumentEntries(results.results, 1)

\* Results of the collection: the lists of the first query.
CollectionResult(n) ==
    [ids |-> <<SubSeq(<<"eo_14067", "gdpr_summary">>, 1, n)>>,
     documents |->
         <<SubSeq(<<"Executive Order 14067 on digital assets.",
                    LongSentence("The regulation applies ",
                                 DocumentBudget + 1)>>, 1, n)>>,
     metadatas |->
         <<SubSeq(<<[title |-> "Executive Order 14067",
                     doc_id |-> "eo_14067", source |-> "Federal Register",
                     type |-> "executive_order", agency |-> "White House",
                     date |-> "2022-03-09"],
                    [doc_id |-> "gdpr_summary"]>>, 1, n)>>,
     distances |-> <<SubSeq(<<250, 1400>>, 1, n)>>]

\* What embedding the query and querying the collection meet with.
VectorStoreOutcomes ==
    {RequestRaised("Collection policy_documents does not exist."),
     RequestAnswered([ids |-> <<>>, documents |-> <<>>, metadatas |-> <<>>,
                      distances |-> <<>>]),
     RequestAnswered(CollectionResult(0)),
     RequestAnswered(CollectionResult(1)),
     RequestAnswered(CollectionResult(2))}

SearchQueries == {"digital assets", "Executive Order 14067", ""}

\* The number of results the agent asks for.
NumResults == 3

\* A caller calls VectorSearchTool.search_policy_documents.
call_search_policy_documents ==
    /\ \E query \in SearchQueries :
       \E outcome \in VectorStoreOutcomes :
           /\ tool_called' = "search_policy_documents"
           /\ tool_argument' = query
           /\ tool_outcome' = <<outcome>>
           /\ tool_results' = VectorStoreManager_search_documents(
                                  query, NumResults, outcome)
           /\ tool_returned' = search_policy_documents(query, tool_results')
    /\ UNCHANGED <<agentVars, document_text, document_title, text_type, pc,
                   sentences, analysis, output, previous, calls, compareVars,
                   stakeholderVars>>

InitTools ==
    /\ NoNavigator
    /\ pc = "ready"
    /\ NoAnalysis /\ NoCalls /\ NoComparison /\ NoStakeholders

\* A caller calls FederalRegisterTool.check_policy_status.
call_check_policy_status ==
    /\ \E policy_identifier \in PolicyIdentifiers :
       \E outcomes \in StatusOutcomes(policy_identifier) :
       \E now \in 1..MaxClock :
           /\ tool_called' = "check_policy_status"
           /\ tool_argument' = policy_identifier
           /\ tool_outcome' = outcomes
           /\ tool_results' = <<>>
           /\ tool_returned' = check_policy_status(policy_identifier,
                                                   outcomes, now)
    /\ UNCHANGED <<agentVars, document_text, document_title, text_type, pc,
                   sentences, analysis, output, previous, calls, compareVars,
                   stakeholderVars>>

NextTools ==
    \/ call_check_policy_status
    \/ call_search_case_law
    \/ call_search_policy_documents

SpecTools == InitTools /\ [][NextTools]_vars

-----------------------------------------------------------------------------
(* The agent (src/policy_navigator_agent.py).  An entry of the             *)
(* conversation history holds its type, its content and the type of the    *)
(* content; its timestamp, which nothing reads, is left out.               *)

StatusKeywords == <<"status", "effect", "active", "repealed", "executive order">>

CaseLawKeywords == <<"case law", "court", "ruling", "challenge", "lawsuit">>

\* The routes of a query sent to the first collaborator whose keywords it
\* holds.
RoutesToFirstMatch(q) ==
    [status   |-> ContainsAny(lower(q), StatusKeywords),
     case_law |-> /\ ~ContainsAny(lower(q), StatusKeywords)
                  /\ ContainsAny(lower(q), CaseLawKeywords)]

\* Lines 281 and 287: the collaborators a query is routed to besides the
\* search of the policy documents.
Routes(q) ==
    [status   |-> ContainsAny(lower(q), StatusKeywords),
     case_law |-> ContainsAny(lower(q), CaseLawKeywords)]

\* A call of a collaborator and the text it returned.
Invocation(tool, returned) == [tool |-> tool, returned |-> returned]

\* Lines 281-295: the collaborators _query_standalone calls, in the order
\* of the calls, with what they return; outcomes holds what the requests of
\* each meet with.
StandaloneCalls(q, outcomes, now) ==
    (IF Routes(q).status
     THEN <<Invocation("check_policy_status",
                       check_policy_status(q, outcomes.status, now))>>
     ELSE <<>>)
    \o (IF Routes(q).case_law
        THEN <<Invocation("search_case_law",
                          search_case_law(q, outcomes.case_law))>>
        ELSE <<>>)
    \o <<Invocation("search_policy_documents",
             search_policy_documents(q,
                 VectorStoreManager_search_documents(q, NumResults,
                                                     outcomes.documents)))>>

\* Lines 284, 290 and 295: what the response gains from the calls from the
\* i-th on.
RECURSIVE ResponseParts(_, _)
ResponseParts(called, i) ==
    IF i > Len(called) THEN ""
    ELSE (IF called[i].tool = "search_policy_documents"
          THEN "**Relevant Policy Documents:**\n" ELSE "")
         \o called[i].returned \o "\n\n"
         \o ResponseParts(called, i + 1)

\* PolicyNavigatorAgent._query_standalone, from the calls it made.
query_standalone(called) ==
    "**Policy Navigator Agent Response:**\n\n"
    \o ResponseParts(called, 1)
    \o "---\n*This response was generated using the Policy Navigator Agent. "
    \o "For official legal advice, please consult with qualified legal "
    \o "counsel.*"

\* Line 252: the response of query when its processing raised e.
error_response(e) ==
    "I apologize, but I encountered an error while processing your query: "
    \o e \o ". Please try rephrasing your question or contact support if "
    \o "the issue persists."

\* str(e) of the AttributeError of line 278 on a query that is not a string.
NoLowerMessage(type) == "'" \o type \o "' object has no attribute 'lower'"

\* An entry of the conversation history.
Entry(type, content, content_type) ==
    [type |-> type, content |-> content, content_type |-> content_type]

\* The history after a call that records the response it returns whether
\* or not the processing raised.
HistoryAfterAnyResponse(history, q, type, succeeded, returned) ==
    history \o <<Entry("user", q, type),
                 Entry("assistant", returned, "str")>>

\* Lines 227-246: the history after a call of query.
HistoryAfter(history, q, type, succeeded, returned) ==
    history \o <<Entry("user", q, type)>>
    \o (IF succeeded THEN <<Entry("assistant", returned, "str")>> ELSE <<>>)

\* The questions asked; a query that is not a string is held as "" with
\* its type.
Queries ==
    {"Is Executive Order 14067 still in effect?",
     "Has Section 230 ever been challenged in court?",
     "What are the compliance requirements for digital assets?",
     "Court RULINGS on the STATUS of Section 230"}

\* What the requests of the collaborators are taken to meet with while the
\* agent is asked.
AgentOutcomes ==
    [status    : {<<RequestRaised("Connection refused")>>,
                  <<RequestAnswered([count |-> 0, results |-> <<>>])>>},
     case_law  : {RequestRaised("Connection refused"),
                  Response(200, "", [count |-> 1,
                      results |-> SubSeq(CourtListenerOpinions, 1, 1)])},
     documents : {RequestRaised("Collection policy_documents does not exist."),
                  RequestAnswered(CollectionResult(1))}]

\* The outcomes of the requests that are made for a query.
OutcomesFor(q) ==
    {o \in AgentOutcomes :
        /\ Routes(q).status \/ o.status = <<RequestRaised("Connection refused")>>
        /\ Routes(q).case_law \/ o.case_law = RequestRaised("Connection refused")}

\* What self.agent.run meets with: a result with data.output, another
\* result, of which str() is returned, or an exception.
AgentRuns ==
    {[kind |-> "output", text |-> "Executive Order 14067 is in effect."],
     [kind |-> "other", text |-> "<AgentResponse>"],
     [kind |-> "raised", text |-> ""]}

\* The most queries of a conversation history.
MaxQueries == 2

UserEntries(history) ==
    Cardinality({i \in 1..Len(history) : history[i].type = "user"})

InitAgent ==
    /\ agent \in {"None", "Agent"}
    /\ conversation_history = <<>>
    /\ user_query = "" /\ query_type = "str" /\ processing = "none"
    /\ invoked = <<>> /\ response = ""
    /\ tool_called = "" /\ tool_argument = "" /\ tool_outcome = <<>>
    /\ tool_results = <<>> /\ tool_returned = ""
    /\ pc = "ready"
    /\ NoAnalysis /\ NoCalls /\ NoComparison /\ NoStakeholders

\* Lines 271-300 within the try of query: the query is processed standalone.
\* A query that is not a string has no lower(): the AttributeError ends the
\* processing before any collaborator is called.
ProcessedStandalone(q, type) ==
    \/ /\ type = "str"
       /\ \E outcomes \in OutcomesFor(q) : \E now \in 1..MaxClock :
            /\ invoked' = StandaloneCalls(q, outcomes, now)
            /\ response' = query_standalone(invoked')
            /\ processing' = "succeeded"
    \/ /\ type # "str"
       /\ invoked' = <<>>
       /\ response' = error_response(NoLowerMessage(type))
       /\ processing' = "raised"

\* Lines 255-269 within the try of query: the aiXplain agent is run and the
\* query is processed standalone when it raises.
ProcessedByAgent(q, type) ==
    \E run \in AgentRuns :
        \/ /\ run.kind # "raised"
           /\ invoked' = <<>>
           /\ response' = run.text
           /\ processing' = "succeeded"
        \/ /\ run.kind = "raised"
           /\ ProcessedStandalone(q, type)

\* PolicyNavigatorAgent.query
query ==
    /\ UserEntries(conversation_history) < MaxQueries
    /\ \E q \in Queries \cup {""} : \E type \in TextTypes :
        /\ (type = "str") = (q # "")
        /\ user_query' = q
        /\ query_type' = type
        /\ IF agent = "Agent"
           THEN ProcessedByAgent(q, type)
           ELSE ProcessedStandalone(q, type)
        /\ conversation_history' =
               HistoryAfter(conversation_history, q, type,
                            processing' = "succeeded", response')
    /\ UNCHANGED <<agent, toolVars, document_text, document_title, text_type,
                   pc, sentences, analysis, output, previous, calls,
                   compareVars, stakeholderVars>>

\* PolicyNavigatorAgent.clear_conversation_history
clear_conversation_history ==
    /\ conversation_history' = <<>>
    /\ user_query' = "" /\ query_type' = "str"
    /\ processing' = "cleared"
    /\ invoked' = <<>> /\ response' = ""
    /\ UNCHANGED <<agent, toolVars, document_text, document_title, text_type,
                   pc, sentences, analysis, output, previous, calls,
                   compareVars, stakeholderVars>>

NextAgent == query \/ clear_conversation_history

SpecAgent == InitAgent /\ [][NextAgent]_vars

-----------------------------------------------------------------------------
(* The collaborators: what they return, request by request.                *)

\* The call of a collaborator that has returned.
ToolReturned(name) == tool_called = name

\* Whether the first request of the call failed: it raised, or (to
\* CourtListener) it was answered with a status other than 200.
RequestFailed ==
    \/ tool_outcome[1].raised
    \/ /\ tool_called = "search_case_law"
       /\ tool_outcome[1].status_code # 200

\* The message of the failure: the exception's, or the one search_opinions
\* gives the status code.
FailureMessage ==
    IF tool_called = "search_case_law"
    THEN search_opinions(tool_argument, tool_outcome[1]).error
    ELSE tool_outcome[1].error

\* The digits of a text, in their order.
RECURSIVE DigitsFrom(_, _)
DigitsFrom(s, i) ==
    LET d == FirstOf(s, i, DigitChars)
    IN  IF d > Len(s) THEN "" ELSE Char(s, d) \o DigitsFrom(s, d + 1)

\* C25: for a policy identifier that names an executive order (it contains
\* "executive order" in any case, or starts with "EO") and has a digit,
\* check_policy_status returns a text that contains "Executive Order"
\* followed by the digits of the identifier, whether the search failed,
\* found no document or found one.
C25_ExecutiveOrderNamed ==
    /\ ToolReturned("check_policy_status")
    /\ \/ Contains(lower(tool_argument), "executive order")
       \/ At(tool_argument, 1, "EO")
    /\ DigitsFrom(tool_argument, 1) # ""
    => /\ Contains(tool_returned,
                   "Executive Order " \o DigitsFrom(tool_argument, 1))
       /\ \/ RequestFailed
          \/ Len(Get(tool_outcome[1].data, "results", <<>>)) = 0
          \/ Len(tool_outcome) = 3

\* The status of "executive order 13985 of 2021" has been asked for and a
\* document was found, none of which names "139852021": the report is
\* headed by the digits of the identifier.
C25_Witness ==
    /\ ToolReturned("check_policy_status")
    /\ tool_argument = "executive order 13985 of 2021"
    /\ Len(tool_outcome) = 3
    /\ Contains(tool_returned, "**Executive Order 139852021 Status Report**")
    /\ Contains(tool_returned, "**Title:** Ensuring Responsible")

\* Whether the request to CourtListener gave a usable result: a status of
\* 200 and at least one opinion.
UsableResult ==
    /\ ~tool_outcome[1].raised
    /\ tool_outcome[1].status_code = 200
    /\ Len(Get(tool_outcome[1].data, "results", <<>>)) > 0

\* C24: for every topic and every outcome of the request to CourtListener
\* (results, no results, rate limit, authentication error, another HTTP
\* error, network error) search_case_law returns a text that contains
\* "case" in some case of its letters; it is the text of the demonstration
\* cases whenever the API gave no usable result, and the text of the API's
\* results otherwise.
C24_CaseLawAlwaysNamesCases ==
    ToolReturned("search_case_law") =>
        /\ Contains(lower(tool_returned), "case")
        /\ IF UsableResult
           THEN At(tool_returned, 1, "**Case Law Search Results for '"
                                         \o tool_argument \o "':**")
           ELSE \/ /\ At(tool_returned, 1, "**Case Law Analysis for '"
                                               \o tool_argument \o "':**")
                   /\ Contains(tool_returned, "*Note: This demo includes")
                \/ /\ At(tool_returned, 1, "**Case Law Search for '"
                                               \o tool_argument \o "':**")
                   /\ Contains(tool_returned, "our demonstration database")

\* The request for "Section 230" was rate limited: the two demonstration
\* cases on Section 230 are returned.
C24_Witness ==
    /\ ToolReturned("search_case_law")
    /\ tool_argument = "Section 230"
    /\ ~tool_outcome[1].raised /\ tool_outcome[1].status_code = 429
    /\ Contains(tool_returned, "Found 2 relevant case(s)")
    /\ Contains(tool_returned, "Zeran v. America Online")

\* C23 as claimed: each collaborator (the Federal Register status check, the
\* CourtListener case-law search, the vector document search) reports a
\* failure of its request as an explicit error string in the text it
\* returns.
C23_FailureInReturnedText ==
    tool_called # "" /\ RequestFailed
    => Contains(tool_returned, FailureMessage)

\* C23: no failure of a request ends a call of a collaborator without a
\* returned text.  The Federal Register status check returns the message
\* of the failure of its first search in an "Error checking" text; the
\* vector store returns it under "error" with no results, which the search
\* tool words as no document found; the CourtListener search returns the
\* text of its demonstration cases, in which the failure is not told.
C23_FailureReportedOrHidden ==
    tool_called # "" /\ RequestFailed =>
        /\ tool_returned # ""
        /\ ToolReturned("check_policy_status")
           => /\ At(tool_returned, 1, "Error checking ")
              /\ Contains(tool_returned, ": " \o FailureMessage)
        /\ ToolReturned("search_policy_documents")
           => /\ "error" \in DOMAIN tool_results
              /\ tool_results.error = FailureMessage
              /\ tool_results.results = <<>>
              /\ tool_returned = "No relevant policy documents found for query: '"
                                     \o tool_argument \o "'"
        /\ ToolReturned("search_case_law")
           => /\ tool_returned = format_mock_results(tool_argument)
              /\ ~Contains(tool_returned, FailureMessage)

\* The vector search has met with an exception: its message is in the
\* dictionary of the store and not in the text of the tool.
C23_Witness ==
    /\ ToolReturned("search_policy_documents")
    /\ RequestFailed
    /\ tool_results.error = "Collection policy_documents does not exist."
    /\ ~Contains(tool_returned, tool_results.error)

-----------------------------------------------------------------------------
(* The agent: its responses and its conversation history.                  *)

\* A call of query has returned.
QueryReturned == processing \in {"succeeded", "raised"}

AssistantEntries(history) ==
    Cardinality({i \in 1..Len(history) : history[i].type = "assistant"})

\* C22: after a call query(q) has returned, the conversation history is not
\* empty and its last two entries are a 'user' entry holding q followed by
\* an 'assistant' entry holding the response returned.
C22_LastTwoEntries ==
    QueryReturned =>
        LET n == Len(conversation_history)
        IN  /\ n >= 2
            /\ conversation_history[n - 1]
                 = Entry("user", user_query, query_type)
            /\ conversation_history[n] = Entry("assistant", response, "str")

\* C29: query always returns; a call appends exactly one 'user' entry, then
\* one 'assistant' entry holding the response when its processing succeeded
\* and none when its processing raised, the response being then the
\* apology; the history never holds more 'assistant' than 'user' entries.
C29_HistoryOfQueries ==
    /\ [](AssistantEntries(conversation_history)
            <= UserEntries(conversation_history))
    /\ [][processing' \in {"succeeded", "raised"} =>
            /\ response' # ""
            /\ UserEntries(conversation_history')
                 = UserEntries(conversation_history) + 1
            /\ IF processing' = "succeeded"
               THEN conversation_history'
                      = conversation_history
                          \o <<Entry("user", user_query', query_type'),
                               Entry("assistant", response', "str")>>
               ELSE /\ conversation_history'
                         = conversation_history
                             \o <<Entry("user", user_query', query_type')>>
                    /\ At(response', 1, "I apologize, but I encountered an error")
       ]_vars

\* Two queries have been asked, the processing of the first of which
\* raised: the history holds two 'user' entries and one 'assistant' entry.
C29_Witness ==
    /\ processing = "succeeded"
    /\ Len(conversation_history) = 3
    /\ conversation_history[1].type = "user"
    /\ conversation_history[1].content_type = "NoneType"
    /\ conversation_history[2].type = "user"
    /\ conversation_history[3] = Entry("assistant", response, "str")

\* The names of the collaborators called, in the order of the calls.
InvokedTools == [i \in 1..Len(invoked) |-> invoked[i].tool]

\* What the i-th call returned followed by a blank line, "" when there are
\* fewer calls.
ReturnedAt(i) ==
    IF i <= Len(invoked) THEN invoked[i].returned \o "\n\n" ELSE ""

\* C27: a query processed standalone is routed by its keywords: the status
\* check is called exactly when the lower-cased query holds a status
\* keyword, the case-law search exactly when it holds a case-law keyword,
\* both for a query that holds both, and the search of the policy documents
\* always; the response holds what they returned in the order status, case
\* law, documents, and then the disclaimer.
C27_RoutedByKeywords ==
    processing = "succeeded" /\ (agent = "None" \/ invoked # <<>>) =>
        LET l == lower(user_query)
            status == \E k \in {"status", "effect", "active", "repealed",
                                "executive order"} : Contains(l, k)
            case_law == \E k \in {"case law", "court", "ruling", "challenge",
                                  "lawsuit"} : Contains(l, k)
            n == Len(invoked)
        IN  /\ InvokedTools
                 = (IF status THEN <<"check_policy_status">> ELSE <<>>)
                   \o (IF case_law THEN <<"search_case_law">> ELSE <<>>)
                   \o <<"search_policy_documents">>
            /\ response
                 = "**Policy Navigator Agent Response:**\n\n"
                   \o (IF n > 1 THEN ReturnedAt(1) ELSE "")
                   \o (IF n > 2 THEN ReturnedAt(2) ELSE "")
                   \o "**Relevant Policy Documents:**\n" \o ReturnedAt(n)
                   \o "---\n*This response was generated using the Policy "
                   \o "Navigator Agent. For official legal advice, please "
                   \o "consult with qualified legal counsel.*"

\* A query that holds a status keyword in upper case and a case-law keyword
\* has been processed standalone: the three collaborators were called.
C27_Witness ==
    /\ processing = "succeeded"
    /\ user_query = "Court RULINGS on the STATUS of Section 230"
    /\ InvokedTools = <<"check_policy_status", "search_case_law",
                        "search_policy_documents">>
    /\ Contains(response, "No documents found for: Court RULINGS")
    /\ Contains(response, "**Case Law Analysis for 'Court RULINGS")

====
